---------------------------- MODULE Spec2Model ----------------------------
(***************************************************************************)
(* A model of the reconnect service, src/apps/reconnect_saas_v7/main.py:   *)
(* the campaign scheduler (start_campaign, process_active_campaigns_once,  *)
(* campaign_worker_loop), the mailbox scan job (generate_queue,            *)
(* generate_queue_result, pause/resume) and the queue_candidates store     *)
(* (save_queue_rows, queue_decision).                                      *)
(*                                                                         *)
(* Scheduling.  Handlers declared "async def" and the background tasks run *)
(* on the one event loop: between two awaits they are atomic with respect  *)
(* to each other.  Handlers declared with a plain "def" (start_campaign,   *)
(* pause_queue_job, resume_queue_job, queue_decision) are run by the       *)
(* framework in worker threads, so their reads and writes interleave with  *)
(* the event loop and with each other; each of them is modelled as one     *)
(* step per read-then-write pair.                                          *)
(***************************************************************************)
EXTENDS Integers, Sequences, FiniteSets, TLC

\* ------------------------------------------------------------------ bounds
MaxCampaigns == 2
MaxTime == 2
MaxJobs == 2
MaxMsgs == 2
\* how many messages a run of the merge alone takes in
MaxMerged == 2
\* the size of the mailbox in the scan of a long mailbox
LongMailbox == 5
\* the largest number of stakeholders the relevance score is applied to
MaxStakeholders == 5
\* the largest number of deal rows handed to the upsert plan
MaxRows == 2
\* the year in which the scan runs: one yearly window per year back to 2015
CurrentYear == 2016
\* batch_size of line 1537 (160 in the code), scaled to the size of the mailbox
BatchSize == 1
\* the largest number of messages in one batch of the fetch pool: more than
\* the pool admits at a time
MaxBatch == 18
\* the calls of the startup handler and the ticks of one worker task
MaxStartups == 2
MaxTicks == 3

\* ------------------------------------------------------------ program data
Users == {"u1"}
\* the (organization_domain, to_email) keys of the followup_drafts rows that
\* pass start_campaign's "not org_domain or not to_email or not final_text"
DraftKeys == {"acme", "globex"}
\* worker threads serving POST /api/campaign/start
StartThreads == {"s1", "s2"}
\* SQL NULL / Python None / "" of a nullable TEXT column
NULL == -1
\* timedelta(days=2): the clock of the model counts days
SendGapDays == 2
FollowupsAllowed == {3, 5}
\* what a start request may carry in followups_count
FollowupsInput == {3, 4}
\* outcomes of loading and checking the user's gmail connection
ConnOutcomes == {"ok", "missing", "mismatch", "token_fail"}

VARIABLES
    campaigns,         \* table campaigns: sequence, campaign_id = index
    campaign_targets,  \* table campaign_targets: <<campaign_id, key>> -> row
    now,               \* wall clock, in days
    outbox,            \* outbox[k]: messages gmail accepted for target k
    deals,             \* deals[k]: CRM deals created for target k
    drafts,            \* keys of the user's followup_drafts rows with status approved
    tick,              \* locals of the campaign worker's current tick
    starts,            \* starts[s]: position and locals of a start_campaign call
    send_failed        \* history: the targets whose latest send attempt raised

VARIABLES
    QUEUE_JOBS,        \* the dict QUEUE_JOBS: sequence of job records, in creation order
    task,              \* task[j]: position and locals of the background task of job j
    ctl,               \* ctl[c]: position and locals of a pause or resume call
    queue_candidates   \* table queue_candidates: user -> (domain -> row)

VARIABLES
    input,             \* the arguments of the function a function specification applies
    output             \* what the function has returned so far

cvars == <<campaigns, campaign_targets, now, outbox, deals, drafts, tick, starts,
          send_failed>>
svars == <<QUEUE_JOBS, task, ctl, queue_candidates>>
pvars == <<input, output>>
vars == <<cvars, svars, pvars>>

\* ------------------------------------------------------------------ helpers
Max(S) == CHOOSE x \in S : \A y \in S : y <= x

IdleTick ==
    [pc |-> "sleep", now |-> 0, todo |-> {}, cur |-> 0, rows |-> <<>>,
     sent_inc |-> 0, replied_inc |-> 0, deals_inc |-> 0]

IdleStart == [pc |-> "idle", user |-> "", followups |-> 0, approved |-> {}]

RunningOf(u) ==
    {c \in DOMAIN campaigns :
        campaigns[c].user_email = u /\ campaigns[c].status = "running"}

TargetsOf(c) == {k \in DOMAIN campaign_targets : k[1] = c}

\* ------------------------------------------------------------ start_campaign
NewCampaign(u, f, approved) ==
    [user_email |-> u, status |-> "running", followups_count |-> f,
     total_targets |-> Cardinality(approved), sent_count |-> 0,
     replied_count |-> 0, deals_created |-> 0]

\* mutant: the values of the columns sent_count and max_sends change places
NewTarget_Swapped(f, ts) ==
    [sent_count |-> 1 + f, max_sends |-> 0, last_sent_at |-> NULL,
     next_send_at |-> ts, replied_at |-> NULL, pipedrive_deal_id |-> NULL,
     status |-> "active"]

\* lines 2017-2039: the row inserted for an approved draft
NewTarget(f, ts) ==
    [sent_count |-> 0, max_sends |-> 1 + f, last_sent_at |-> NULL,
     next_send_at |-> ts, replied_at |-> NULL, pipedrive_deal_id |-> NULL,
     status |-> "active"]

\* lines 1989-1995: the running campaign of the user that was started last, if any
StartResponse(u) ==
    IF RunningOf(u) # {}
    THEN [already_running |-> TRUE, campaign_id |-> Max(RunningOf(u))]
    ELSE [already_running |-> FALSE, campaign_id |-> NULL]

PendingInserts == Cardinality({s \in StartThreads : starts[s].pc = "insert"})

\* lines 1977-1995: the connection, the followups_count and the approved drafts
\* are checked, then one transaction looks for a running campaign of the user
StartCheck(s, u, f, conn) ==
    /\ starts[s].pc = "idle"
    /\ Len(campaigns) + PendingInserts < MaxCampaigns
    /\ conn = "ok"
    /\ f \in FollowupsAllowed
    /\ drafts[u] # {}
    /\ starts' = [starts EXCEPT ![s] =
          IF StartResponse(u).already_running
          THEN IdleStart
          ELSE [pc |-> "insert", user |-> u, followups |-> f, approved |-> drafts[u]]]
    /\ UNCHANGED <<campaigns, campaign_targets, now, outbox, deals, drafts, send_failed, tick, svars, pvars>>

\* lines 1997-2041: a second transaction inserts the campaign and its targets
StartInsert(s) ==
    /\ starts[s].pc = "insert"
    /\ LET cid == Len(campaigns) + 1
           new == {<<cid, d>> : d \in starts[s].approved}
       IN /\ campaigns' = Append(campaigns,
                 NewCampaign(starts[s].user, starts[s].followups, starts[s].approved))
          /\ campaign_targets' =
                 [k \in DOMAIN campaign_targets \cup new |->
                     IF k \in new THEN NewTarget(starts[s].followups, now)
                     ELSE campaign_targets[k]]
          /\ outbox' = [k \in DOMAIN outbox \cup new |->
                           IF k \in new THEN 0 ELSE outbox[k]]
          /\ deals' = [k \in DOMAIN deals \cup new |->
                           IF k \in new THEN 0 ELSE deals[k]]
          /\ starts' = [starts EXCEPT ![s] = IdleStart]
    /\ UNCHANGED <<now, drafts, send_failed, tick, svars, pvars>>

\* ------------------------------------------------------ campaign worker tick
\* the names bound when line 1205 is evaluated: the locals assigned in lines
\* 1154-1201 (the module defines no global of these names)
TickNames ==
    {"campaigns", "now", "now_s", "c", "campaign_id", "user_email", "gmail_conn",
     "access_token", "targets", "sent_inc", "replied_inc", "deals_inc", "t",
     "org_domain", "org_name", "to_email", "token", "draft_text", "sent_count",
     "max_sends", "next_send_at", "replied_at", "deal_id", "status",
     "subject_text"}

NameBound(n) == n \in TickNames

\* what the mail provider answers to the query of gmail_has_reply_after: the
\* list call fails, or it returns the dates of the inbox messages from the
\* recipient (here none, an old one or one of the present day)
ReplyAnswers(present) ==
    {[ok |-> FALSE, dates |-> {}]}
        \cup [ok : {TRUE}, dates : {{}, {0}, {present}}]

\* lines 1058-1093: FALSE when the list call fails or lists nothing, else
\* whether one of the listed messages is dated after after_iso
gmail_has_reply_after(answer, after) ==
    /\ answer.ok
    /\ \E m_dt \in answer.dates : m_dt > after

\* line 1205 up to the name last_sent_at
ReplyCheckDue(t) == t.replied_at = NULL /\ t.sent_count > 0

\* what lines 1202-1256 do with the snapshot row t of target k; were the name
\* last_sent_at bound, the only value it could carry is the one of the column
TargetOutcome(k, t, answer, send_ok) ==
    IF t.status # "active" THEN "skip"
    ELSE IF ReplyCheckDue(t) /\ ~NameBound("last_sent_at") THEN "name_error"
    ELSE IF /\ ReplyCheckDue(t)
            /\ campaign_targets[k].last_sent_at # NULL
            /\ gmail_has_reply_after(answer, campaign_targets[k].last_sent_at)
         THEN "replied"
    ELSE IF t.replied_at # NULL THEN "skip"
    ELSE IF t.sent_count >= t.max_sends THEN "completed"
    ELSE IF t.next_send_at > tick.now THEN "not_due"
    ELSE IF ~send_ok THEN "send_failed"
    ELSE "sent"

\* the columns read by the SELECT of lines 1179-1180: last_sent_at is not one
SelectedColumns(row) ==
    [sent_count |-> row.sent_count, max_sends |-> row.max_sends,
     next_send_at |-> row.next_send_at, replied_at |-> row.replied_at,
     pipedrive_deal_id |-> row.pipedrive_deal_id, status |-> row.status]

\* lines 1154-1159; with no running campaign the tick does nothing
TickStart ==
    /\ tick.pc = "sleep"
    /\ \E c \in DOMAIN campaigns : campaigns[c].status = "running"
    /\ tick' = [IdleTick EXCEPT !.pc = "campaigns", !.now = now,
                                !.todo = {c \in DOMAIN campaigns :
                                             campaigns[c].status = "running"}]
    /\ UNCHANGED <<campaigns, campaign_targets, now, outbox, deals, drafts, send_failed, starts, svars, pvars>>

\* line 1160: the loop goes on with the campaigns left; after the last one
\* process_active_campaigns_once returns and the worker sleeps (line 1283)
Continue(todo) ==
    IF todo = {} THEN IdleTick
    ELSE [tick EXCEPT !.pc = "campaigns", !.cur = 0, !.todo = todo, !.rows = <<>>,
                      !.sent_inc = 0, !.replied_inc = 0, !.deals_inc = 0]

\* lines 1160-1188: the connection check and the load of the active targets
TickCampaign(c, conn) ==
    /\ tick.pc = "campaigns"
    /\ c \in tick.todo
    /\ IF conn \in {"missing", "mismatch"}
       THEN /\ campaigns' = [campaigns EXCEPT ![c].status = "error"]
            /\ tick' = Continue(tick.todo \ {c})
       ELSE IF conn = "token_fail"
       THEN /\ tick' = Continue(tick.todo \ {c})
            /\ UNCHANGED campaigns
       ELSE /\ tick' = [tick EXCEPT
                  !.pc = "targets", !.cur = c, !.todo = @ \ {c},
                  !.rows = [k \in {x \in TargetsOf(c) :
                                     campaign_targets[x].status = "active"}
                              |-> SelectedColumns(campaign_targets[k])],
                  !.sent_inc = 0, !.replied_inc = 0, !.deals_inc = 0]
            /\ UNCHANGED campaigns
    /\ UNCHANGED <<campaign_targets, now, outbox, deals, drafts, send_failed, starts, svars, pvars>>

RestRows(k) == [x \in DOMAIN tick.rows \ {k} |-> tick.rows[x]]

\* mutant: the target is due again at once
next_send_Now(t) == t

\* line 1245: the time of the next send after a send at tick time t
next_send(t) == t + SendGapDays

\* lines 1189-1256: one iteration of the loop over the loaded targets.  A
\* NameError leaves process_active_campaigns_once; campaign_worker_loop
\* swallows it (lines 1281-1282) and sleeps.
TargetIteration(k, answer, crm_ok, send_ok) ==
    /\ tick.pc = "targets"
    /\ k \in DOMAIN tick.rows
    /\ LET t == tick.rows[k]
           out == TargetOutcome(k, t, answer, send_ok)
           created == IF t.pipedrive_deal_id = NULL /\ crm_ok
                      THEN deals[k] + 1 ELSE NULL
           new_deal_id == IF t.pipedrive_deal_id # NULL
                          THEN t.pipedrive_deal_id ELSE created
       IN IF out = "name_error"
          THEN /\ tick' = IdleTick
               /\ UNCHANGED <<campaign_targets, outbox, deals>>
          ELSE IF out = "replied"
          THEN /\ campaign_targets' = [campaign_targets EXCEPT
                     ![k].replied_at = tick.now, ![k].status = "replied",
                     ![k].pipedrive_deal_id = new_deal_id]
               /\ deals' = [deals EXCEPT ![k] =
                     IF t.pipedrive_deal_id = NULL /\ crm_ok THEN @ + 1 ELSE @]
               /\ tick' = [tick EXCEPT
                     !.rows = RestRows(k),
                     !.replied_inc = @ + 1,
                     !.deals_inc = IF new_deal_id # NULL /\ t.pipedrive_deal_id = NULL
                                   THEN @ + 1 ELSE @]
               /\ UNCHANGED outbox
          ELSE IF out = "completed"
          THEN /\ campaign_targets' = [campaign_targets EXCEPT ![k].status = "completed"]
               /\ tick' = [tick EXCEPT !.rows = RestRows(k)]
               /\ UNCHANGED <<outbox, deals>>
          ELSE IF out = "sent"
          THEN /\ campaign_targets' = [campaign_targets EXCEPT
                     ![k].sent_count = @ + 1, ![k].last_sent_at = tick.now,
                     ![k].next_send_at = next_send(tick.now)]
               /\ outbox' = [outbox EXCEPT ![k] = @ + 1]
               /\ tick' = [tick EXCEPT !.rows = RestRows(k), !.sent_inc = @ + 1]
               /\ UNCHANGED deals
          ELSE /\ tick' = [tick EXCEPT !.rows = RestRows(k)]
               /\ UNCHANGED <<campaign_targets, outbox, deals>>
    /\ UNCHANGED <<campaigns, now, drafts, starts, svars, pvars>>

\* the iteration, without a record of the failed sends
TargetStep(k, answer, crm_ok, send_ok) ==
    /\ TargetIteration(k, answer, crm_ok, send_ok)
    /\ UNCHANGED send_failed

\* the iteration, with the record of lines 1240-1243: the except branch of the
\* send is taken, or the send succeeds
TargetStepNoted(k, answer, crm_ok, send_ok) ==
    /\ TargetIteration(k, answer, crm_ok, send_ok)
    /\ send_failed' =
          LET out == TargetOutcome(k, tick.rows[k], answer, send_ok)
          IN IF out = "send_failed" THEN send_failed \cup {k}
             ELSE IF out = "sent" THEN send_failed \ {k}
             ELSE send_failed

\* mutant: the campaign is closed whatever is left
running_status_Done(active_left) == "done"

\* line 1263
running_status(active_left) == IF active_left = 0 THEN "done" ELSE "running"

\* lines 1258-1272
CampaignFinish ==
    /\ tick.pc = "targets"
    /\ DOMAIN tick.rows = {}
    /\ LET c == tick.cur
           active_left == Cardinality({k \in TargetsOf(c) :
                                          campaign_targets[k].status = "active"})
       IN campaigns' = [campaigns EXCEPT
             ![c].sent_count = @ + tick.sent_inc,
             ![c].replied_count = @ + tick.replied_inc,
             ![c].deals_created = @ + tick.deals_inc,
             ![c].status = running_status(active_left)]
    /\ tick' = Continue(tick.todo)
    /\ UNCHANGED <<campaign_targets, now, outbox, deals, drafts, send_failed, starts, svars, pvars>>

\* -------------------------------------------------------------- environment
AdvanceClock ==
    /\ now < MaxTime
    /\ tick.pc = "sleep"
    /\ \A s \in StartThreads : starts[s].pc = "idle"
    /\ now' = now + 1
    /\ UNCHANGED <<campaigns, campaign_targets, outbox, deals, drafts, send_failed, tick, starts, svars, pvars>>

\* ------------------------------------------------------------ domain rules
\* A domain is the sequence of its dot-separated labels: acme.com is
\* <<"acme", "com">>, the empty string is <<>>.  Every address the scan sees
\* comes out of extract_emails, which lower-cases it.
\* lines 33-52
FREE_DOMAINS ==
    {<<"126", "com">>, <<"163", "com">>, <<"aol", "com">>,
     <<"gmail", "com">>, <<"gmx", "com">>, <<"googlemail", "com">>,
     <<"hotmail", "com">>, <<"icloud", "com">>, <<"live", "com">>,
     <<"mail", "com">>, <<"msn", "com">>, <<"outlook", "com">>,
     <<"proton", "me">>, <<"protonmail", "com">>, <<"qq", "com">>,
     <<"yahoo", "co", "uk">>, <<"yahoo", "com">>, <<"yandex", "com">>}

\* lines 54-70
NOISE_DOMAINS ==
    {<<"amazonaws", "com">>, <<"atlassian", "com">>, <<"docusign", "net">>,
     <<"email", "reuters", "com">>, <<"github", "com">>, <<"google", "com">>,
     <<"googlemail", "com">>, <<"linkedin", "com">>,
     <<"mail", "linkedin", "com">>, <<"mail", "notion", "so">>,
     <<"noreply", "github", "com">>, <<"notifications", "github", "com">>,
     <<"notion", "so">>, <<"pipedrive", "com">>, <<"slack", "com">>}

\* lines 114-135
GENERIC_LOCALPARTS ==
    {"admin", "contact", "do-not-reply", "donotreply", "events", "hello",
     "help", "info", "marketing", "news", "newsletter", "no-reply",
     "noreply", "notifications", "office", "sales", "security", "support",
     "team", "updates"}

\* lines 784-788
base_domain_label(domain) == IF domain = <<>> THEN "" ELSE Head(domain)

\* dom.endswith("." + x)
EndsWithDot(dom, x) ==
    /\ Len(dom) > Len(x)
    /\ SubSeq(dom, Len(dom) - Len(x) + 1, Len(dom)) = x

\* mutant: the comparison of the base labels is left out
is_excluded_domain_NoBaseLabel(dom, own_domain) ==
    \/ dom = <<>>
    \/ own_domain # <<>> /\ dom = own_domain
    \/ dom \in FREE_DOMAINS
    \/ dom \in NOISE_DOMAINS
    \/ \E x \in NOISE_DOMAINS : EndsWithDot(dom, x)

\* lines 791-805
is_excluded_domain(dom, own_domain) ==
    \/ dom = <<>>
    \/ own_domain # <<>> /\ dom = own_domain
    \/ /\ own_domain # <<>>
       /\ base_domain_label(dom) # ""
       /\ base_domain_label(dom) = base_domain_label(own_domain)
    \/ dom \in FREE_DOMAINS
    \/ dom \in NOISE_DOMAINS
    \/ \E x \in NOISE_DOMAINS : EndsWithDot(dom, x)

\* ------------------------------------------------------------ mailbox data
MsgIds == 1..MaxMsgs
Domains == {<<"acme", "com">>, <<"globex", "com">>}
\* range(current_year, 2014, -1): the year at which the loop of line 1503 stops
RangeStop == 2014
\* line 1674: a checkpoint follows every batch whose number is a multiple of 4
CheckpointEvery == 4

\* an address local@domain as extract_emails returns it
Email(local, domain) == [local |-> local, domain |-> domain]
NoEmail == Email("", <<>>)

\* line 1531: the domain of the connected mailbox, which is the user's address
own_domain(u) == <<"own", "com">>

\* What lines 1572-1592 read in the metadata of message m: the first address
\* of From, the addresses of From, To and Cc, the thread id and the date.
\* The odd messages come from a person at acme.com, the even ones from a
\* generic mailbox of globex.com; all are addressed to the owner.
Message(m) ==
    IF m % 2 = 1
    THEN [from_email |-> Email("ann", <<"acme", "com">>),
          all_emails |-> {Email("ann", <<"acme", "com">>), Email("me", <<"own", "com">>)},
          thread_id |-> "t1", ts |-> m]
    ELSE [from_email |-> Email("info", <<"globex", "com">>),
          all_emails |-> {Email("info", <<"globex", "com">>), Email("me", <<"own", "com">>)},
          thread_id |-> "t2", ts |-> m]

Range(s) == {s[x] : x \in DOMAIN s}

\* what a message-id list call answers: a failure status, or a list of ids
ListAnswers ==
    {[ok |-> FALSE, items |-> <<>>]} \cup
    {[ok |-> TRUE, items |-> s] :
        s \in {q \in UNION {[1..n -> MsgIds] : n \in 0..MaxMsgs} :
                  Cardinality(Range(q)) = Len(q)}}

AutoStatuses == {"pending", "auto_reject"}
UserStatuses == {"pending", "approved", "rejected"}
ControlThreads == {"c1"}

\* ------------------------------------------------------------ job records
\* a result_summary; NULL stands for a key the dict does not have
Summary(orgs, processed, total) ==
    [organizations |-> orgs, messages_processed |-> processed, messages_total |-> total]

\* lines 1762-1772
NewJob(u) ==
    [user_email |-> u, status |-> "running", pause_requested |-> FALSE,
     error |-> "", result_summary |-> Summary(NULL, NULL, NULL)]

\* fetched is a ghost local: the ids of the messages merged so far
EndedTask ==
    [pc |-> "ended", year |-> 0, ids |-> <<>>, i |-> 0, orgs |-> <<>>,
     fetched |-> {}, rows |-> <<>>, existing_status |-> <<>>]

IdleControl == [pc |-> "idle", kind |-> "", job |-> 0]

\* lines 1743-1750
ActiveJobs(u) ==
    {j \in DOMAIN QUEUE_JOBS :
        QUEUE_JOBS[j].user_email = u /\ QUEUE_JOBS[j].status \in {"running", "paused"}}

\* lines 1751-1758 and 1774: what POST /api/queue/generate answers
GenerateResponse(u) ==
    IF ActiveJobs(u) # {}
    THEN LET a == CHOOSE j \in ActiveJobs(u) : \A x \in ActiveJobs(u) : j <= x
         IN [job_id |-> a, status |-> QUEUE_JOBS[a].status, started |-> FALSE]
    ELSE [job_id |-> Len(QUEUE_JOBS) + 1, status |-> "running", started |-> TRUE]

\* lines 1735-1774: runs on the event loop without an await
generate_queue(u, conn) ==
    /\ conn \notin {"missing", "mismatch"}
    /\ GenerateResponse(u).started
    /\ Len(QUEUE_JOBS) < MaxJobs
    /\ QUEUE_JOBS' = Append(QUEUE_JOBS, NewJob(u))
    /\ task' = Append(task, [EndedTask EXCEPT !.pc = "begin"])
    /\ UNCHANGED <<cvars, pvars, ctl, queue_candidates>>

\* ------------------------------------------------------- pause and resume
\* lines 1798-1804 and 1811-1817: the job is looked up and its status checked
ControlCheck(c, kind, j) ==
    /\ ctl[c].pc = "idle"
    /\ j \in DOMAIN QUEUE_JOBS
    /\ QUEUE_JOBS[j].status \in {"running", "paused"}
    /\ ctl' = [ctl EXCEPT ![c] = [pc |-> "apply", kind |-> kind, job |-> j]]
    /\ UNCHANGED <<cvars, pvars, QUEUE_JOBS, task, queue_candidates>>

pause_queue_job(c, j) == ControlCheck(c, "pause", j)

resume_queue_job(c, j) == ControlCheck(c, "resume", j)

\* lines 1805 and 1818: set_queue_job_state with the handler's updates
ControlApply(c) ==
    /\ ctl[c].pc = "apply"
    /\ QUEUE_JOBS' = [QUEUE_JOBS EXCEPT
          ![ctl[c].job].pause_requested = (ctl[c].kind = "pause"),
          ![ctl[c].job].status = IF ctl[c].kind = "pause" THEN "paused" ELSE "running"]
    /\ ctl' = [ctl EXCEPT ![c] = IdleControl]
    /\ UNCHANGED <<cvars, pvars, task, queue_candidates>>

\* ------------------------------------------------------- queue_candidates
\* lines 851-857
load_status_map(u) ==
    [d \in DOMAIN queue_candidates[u] |-> queue_candidates[u][d].status]

\* mutant: the DO UPDATE SET list also carries status = excluded.status
save_queue_rows_WritesStatus(cur, existing_status, rows) ==
    [d \in DOMAIN cur \cup DOMAIN rows |->
        IF d \notin DOMAIN rows THEN cur[d]
        ELSE LET default_status == IF rows[d].auto_status = "pending"
                                   THEN "pending" ELSE "rejected"
                 status == IF d \in DOMAIN existing_status
                           THEN existing_status[d] ELSE default_status
             IN [status |-> status, auto_status |-> rows[d].auto_status,
                 payload |-> rows[d], last_write |-> "scan"]]

\* lines 863-904: the upsert of the rows, given the status map loaded before.
\* last_write is a ghost column: who set updated_at last.
save_queue_rows(cur, existing_status, rows) ==
    [d \in DOMAIN cur \cup DOMAIN rows |->
        IF d \notin DOMAIN rows THEN cur[d]
        ELSE LET default_status == IF rows[d].auto_status = "pending"
                                   THEN "pending" ELSE "rejected"
                 status == IF d \in DOMAIN existing_status
                           THEN existing_status[d] ELSE default_status
             IN [status |-> IF d \in DOMAIN cur THEN cur[d].status ELSE status,
                 auto_status |-> rows[d].auto_status,
                 payload |-> rows[d], last_write |-> "scan"]]

\* lines 1463-1478: one UPDATE; an unknown domain or status is refused
queue_decision(u, d, status) ==
    /\ status \in UserStatuses
    /\ d \in DOMAIN queue_candidates[u]
    /\ queue_candidates' = [queue_candidates EXCEPT
          ![u][d].status = status, ![u][d].last_write = "user"]
    /\ UNCHANGED <<cvars, pvars, QUEUE_JOBS, task, ctl>>

\* ------------------------------------------------- generate_queue_result
\* lines 1712-1725: HTTPException leaves the error text alone, any other
\* exception stores it
FailJob(j, unexpected) ==
    [QUEUE_JOBS EXCEPT ![j].status = "failed",
                       ![j].error = IF unexpected THEN "exc" ELSE @]

\* mutant: a list of the items instead of a dict keyed by message id
Dedup_KeepsAll(ids, items) == ids \o items

\* lines 1516-1519: dict insertion keeps the order of the first occurrences
RECURSIVE Dedup(_, _)
Dedup(ids, items) ==
    IF items = <<>> THEN ids
    ELSE Dedup(IF Head(items) \in Range(ids) THEN ids ELSE Append(ids, Head(items)),
               Tail(items))

\* Lines 83-89 and 774-776.  Every pattern is written r"\\b...\\b": in the
\* regular expression the doubled backslash is a literal backslash followed
\* by the letter b, so a pattern matches only a text that holds these
\* characters.  The local parts of the model that the patterns match:
AUTOMATED_SENDER_MATCHES == {"\\bno-reply\\b", "\\balerts\\b"}

is_noise_sender(em) == em.local \in AUTOMATED_SENDER_MATCHES

\* lines 779-781
is_generic_localpart(em) == em.local \in GENERIC_LOCALPARTS

\* lines 1594-1603: the domains of the addresses that are not excluded
MessageDomains(msg, own) ==
    {em.domain : em \in {x \in msg.all_emails : ~is_excluded_domain(x.domain, own)}}

\* lines 1608-1619
NewOrg ==
    [message_count |-> 0, last_message_at |-> 0, primary_contact_email |-> NoEmail,
     stakeholders |-> <<>>, threads |-> <<>>]

Later(a, b) == IF a > b THEN a ELSE b

\* lines 1622-1671 for one domain of the message; dates are numbers, 0 is ""
MergeInto(org, msg, dom) ==
    LET newer == org.last_message_at = 0 \/ msg.ts > org.last_message_at
        mine == {em \in msg.all_emails :
                    /\ em.domain = dom
                    /\ ~is_noise_sender(em)
                    /\ ~is_generic_localpart(em)}
        touched(em) ==
            LET old == IF em \in DOMAIN org.stakeholders THEN org.stakeholders[em]
                       ELSE [touches |-> 0, last_message_at |-> msg.ts]
            IN [touches |-> old.touches + 1,
                last_message_at |-> Later(msg.ts, old.last_message_at)]
        tids == IF msg.thread_id # "" THEN {msg.thread_id} ELSE {}
        counted(tid) ==
            LET old == IF tid \in DOMAIN org.threads THEN org.threads[tid]
                       ELSE [messages |-> 0, last_message_at |-> msg.ts]
            IN [messages |-> old.messages + 1,
                last_message_at |-> Later(msg.ts, old.last_message_at)]
    IN [message_count |-> org.message_count + 1,
        last_message_at |-> IF newer THEN msg.ts ELSE org.last_message_at,
        primary_contact_email |->
            IF newer /\ msg.from_email # NoEmail /\ msg.from_email.domain = dom
            THEN msg.from_email ELSE org.primary_contact_email,
        stakeholders |-> [em \in DOMAIN org.stakeholders \cup mine |->
                            IF em \in mine THEN touched(em) ELSE org.stakeholders[em]],
        threads |-> [tid \in DOMAIN org.threads \cup tids |->
                        IF tid \in tids THEN counted(tid) ELSE org.threads[tid]]]

\* lines 1572-1671 for one fetched message
MergeMessage(orgs, msg, own) ==
    LET domains == MessageDomains(msg, own)
    IN [d \in DOMAIN orgs \cup domains |->
          IF d \in domains
          THEN MergeInto(IF d \in DOMAIN orgs THEN orgs[d] ELSE NewOrg, msg, d)
          ELSE orgs[d]]

\* lines 1569-1571: the fetched messages are merged in the order of the batch
RECURSIVE MergeBatch(_, _, _, _)
MergeBatch(orgs, batch, got, own) ==
    IF batch = <<>> THEN orgs
    ELSE MergeBatch(IF Head(batch) \in got
                    THEN MergeMessage(orgs, Message(Head(batch)), own) ELSE orgs,
                    Tail(batch), got, own)

\* mutant: every org gets a row
Surfaced_All(orgs) == DOMAIN orgs

\* mutant: an org without stakeholders gets a row
Surfaced_Stakeholderless(orgs) == {d \in DOMAIN orgs : DOMAIN orgs[d].threads # {}}

\* lines 1292-1295: the orgs that get a row
Surfaced(orgs) ==
    {d \in DOMAIN orgs :
        /\ DOMAIN orgs[d].threads # {}
        /\ DOMAIN orgs[d].stakeholders # {}
        /\ ~ \A em \in DOMAIN orgs[d].stakeholders : is_generic_localpart(em)}

\* lines 1286-1360: a row for every surfaced org; the auto_status comes from
\* the texts and dates of the messages, an input here
build_rows_from_orgs(orgs, auto) ==
    [d \in Surfaced(orgs) |->
        [auto_status |-> auto[d],
         threads_count |-> Cardinality(DOMAIN orgs[d].threads),
         message_count |-> orgs[d].message_count,
         stakeholders |-> orgs[d].stakeholders,
         threads |-> orgs[d].threads]]

\* line 1567
Batch(t) ==
    SubSeq(t.ids, t.i + 1,
           IF t.i + BatchSize < Len(t.ids) THEN t.i + BatchSize ELSE Len(t.ids))

\* lines 1487-1496
TaskBegin(j, conn) ==
    /\ task[j].pc = "begin"
    /\ IF conn # "ok"
       THEN /\ QUEUE_JOBS' = FailJob(j, conn = "token_fail")
            /\ task' = [task EXCEPT ![j] = EndedTask]
       ELSE /\ QUEUE_JOBS' = [QUEUE_JOBS EXCEPT
                  ![j].status = "running", ![j].result_summary = Summary(0, 0, 0)]
            /\ task' = [task EXCEPT ![j].pc = "wait", ![j].year = CurrentYear]
    /\ UNCHANGED <<cvars, pvars, ctl, queue_candidates>>

\* mutant: the loop goes on whatever the flag says
WaitCheck_NeverLeaves(j) ==
    /\ task[j].pc = "wait"
    /\ task' = [task EXCEPT ![j].pc = "set_paused"]
    /\ UNCHANGED <<cvars, pvars, QUEUE_JOBS, ctl, queue_candidates>>

\* lines 940-944: wait_if_queue_job_paused reads the flag
WaitCheck(j) ==
    /\ task[j].pc = "wait"
    /\ task' = [task EXCEPT ![j].pc =
          IF QUEUE_JOBS[j].pause_requested THEN "set_paused" ELSE "set_running"]
    /\ UNCHANGED <<cvars, pvars, QUEUE_JOBS, ctl, queue_candidates>>

\* lines 945-946: the status is set and the loop sleeps before the next read
SetPaused(j) ==
    /\ task[j].pc = "set_paused"
    /\ QUEUE_JOBS' = [QUEUE_JOBS EXCEPT ![j].status = "paused"]
    /\ task' = [task EXCEPT ![j].pc = "wait"]
    /\ UNCHANGED <<cvars, pvars, ctl, queue_candidates>>

\* lines 1507-1515 in the loop over the years, lines 1554-1568 in the loop
\* over the batches: the status is set and the remote call is started
SetRunning(j) ==
    /\ task[j].pc = "set_running"
    /\ IF task[j].year > RangeStop
       THEN /\ QUEUE_JOBS' = [QUEUE_JOBS EXCEPT ![j].status = "running"]
            /\ task' = [task EXCEPT ![j].pc = "list"]
       ELSE /\ QUEUE_JOBS' = [QUEUE_JOBS EXCEPT
                  ![j].status = "running",
                  ![j].result_summary =
                      Summary(Cardinality(DOMAIN task[j].orgs), task[j].i,
                              Len(task[j].ids))]
            /\ task' = [task EXCEPT ![j].pc = "fetch"]
    /\ UNCHANGED <<cvars, pvars, ctl, queue_candidates>>

\* where the task goes once i messages are behind it: the next batch, or
\* the final snapshot of line 1687
AfterBatch(t, i) ==
    [t EXCEPT !.i = i, !.pc = IF i < Len(t.ids) THEN "wait" ELSE "final_load"]

\* lines 1515-1520 and 1544-1550: the answer of the list call of one year
YearList(j, answer) ==
    /\ task[j].pc = "list"
    /\ IF ~answer.ok
       THEN /\ QUEUE_JOBS' = FailJob(j, FALSE)
            /\ task' = [task EXCEPT ![j] = EndedTask]
       ELSE /\ UNCHANGED QUEUE_JOBS
            /\ LET t == [task[j] EXCEPT !.ids = Dedup(@, answer.items),
                                        !.year = @ - 1]
               IN task' = [task EXCEPT ![j] =
                     IF t.year > RangeStop THEN [t EXCEPT !.pc = "wait"]
                     ELSE AfterBatch(t, 0)]
    /\ UNCHANGED <<cvars, pvars, ctl, queue_candidates>>

\* lines 1568-1676: the fetches of a batch return, the fetched messages are
\* merged and, at a checkpoint, the rows are built and the status map loaded
BatchFetch(j, got, auto) ==
    /\ task[j].pc = "fetch"
    /\ got \subseteq Range(Batch(task[j]))
    /\ LET t == [task[j] EXCEPT !.orgs = MergeBatch(@, Batch(task[j]), got,
                                                         own_domain(QUEUE_JOBS[j].user_email)),
                                !.fetched = @ \cup got]
       IN task' = [task EXCEPT ![j] =
             IF (t.i \div BatchSize) % CheckpointEvery = 0
             THEN [t EXCEPT !.pc = "cp_write",
                            !.rows = build_rows_from_orgs(t.orgs, auto),
                            !.existing_status = load_status_map(QUEUE_JOBS[j].user_email)]
             ELSE AfterBatch(t, t.i + BatchSize)]
    /\ UNCHANGED <<cvars, pvars, QUEUE_JOBS, ctl, queue_candidates>>

\* lines 1676-1685: the upsert of the checkpoint and the progress it reports
CheckpointWrite(j) ==
    /\ task[j].pc = "cp_write"
    /\ LET u == QUEUE_JOBS[j].user_email
           t == task[j]
           done == IF t.i + BatchSize < Len(t.ids) THEN t.i + BatchSize ELSE Len(t.ids)
       IN /\ queue_candidates' = [queue_candidates EXCEPT
                ![u] = save_queue_rows(@, t.existing_status, t.rows)]
          /\ QUEUE_JOBS' = [QUEUE_JOBS EXCEPT ![j].result_summary =
                Summary(Cardinality(DOMAIN t.rows), done, Len(t.ids))]
          /\ task' = [task EXCEPT ![j] = AfterBatch(t, t.i + BatchSize)]
    /\ UNCHANGED <<cvars, pvars, ctl>>

\* lines 1687-1688: the rows of the final snapshot and its status map
FinalLoad(j, auto) ==
    /\ task[j].pc = "final_load"
    /\ task' = [task EXCEPT
          ![j].pc = "final_write",
          ![j].rows = build_rows_from_orgs(task[j].orgs, auto),
          ![j].existing_status = load_status_map(QUEUE_JOBS[j].user_email)]
    /\ UNCHANGED <<cvars, pvars, QUEUE_JOBS, ctl, queue_candidates>>

\* lines 1688-1711: the upsert of the final snapshot, then the job is done
FinalWrite(j) ==
    /\ task[j].pc = "final_write"
    /\ LET u == QUEUE_JOBS[j].user_email
           saved == save_queue_rows(queue_candidates[u], task[j].existing_status,
                                    task[j].rows)
       IN /\ queue_candidates' = [queue_candidates EXCEPT ![u] = saved]
          /\ QUEUE_JOBS' = [QUEUE_JOBS EXCEPT
                ![j].status = "done",
                ![j].result_summary = Summary(Cardinality(DOMAIN saved), NULL, NULL)]
    /\ task' = [task EXCEPT ![j] = EndedTask]
    /\ UNCHANGED <<cvars, pvars, ctl>>

\* mutant: the statements of an interrupted upsert stay in the table
Rollback_KeepsWritten(cur, written) == written

\* line 863: the upsert runs inside the connection's context manager, which
\* rolls the transaction back when an exception leaves the block
Rollback(cur, written) == cur

\* lines 1716-1724: a step of the scan raises an exception other than
\* HTTPException (a database error, a malformed answer); an upsert that was
\* under way is rolled back
Unexpected(j) ==
    /\ task[j].pc \notin {"begin", "ended"}
    /\ QUEUE_JOBS' = FailJob(j, TRUE)
    /\ task' = [task EXCEPT ![j] = EndedTask]
    /\ LET u == QUEUE_JOBS[j].user_email
       IN queue_candidates' =
             IF task[j].pc \in {"cp_write", "final_write"}
             THEN [queue_candidates EXCEPT ![u] =
                      Rollback(@, save_queue_rows(@, task[j].existing_status,
                                                  task[j].rows))]
             ELSE queue_candidates
    /\ UNCHANGED <<cvars, pvars, ctl>>

\* ------------------------------------------------------------ specification
CampaignIdle ==
    /\ campaigns = <<>>
    /\ campaign_targets = <<>>
    /\ now = 0
    /\ outbox = <<>>
    /\ deals = <<>>
    /\ tick = IdleTick
    /\ starts = [s \in StartThreads |-> IdleStart]
    /\ send_failed = {}

ScanIdle ==
    /\ QUEUE_JOBS = <<>>
    /\ task = <<>>
    /\ ctl = [c \in ControlThreads |-> IdleControl]
    /\ queue_candidates = [u \in Users |-> <<>>]

\* no function is being applied
NoCall ==
    /\ input = <<>>
    /\ output = <<>>

Init ==
    /\ CampaignIdle
    /\ ScanIdle
    /\ NoCall
    /\ drafts \in [Users -> SUBSET DraftKeys]

CampaignNext ==
    \/ \E s \in StartThreads, u \in Users, f \in FollowupsInput, conn \in ConnOutcomes :
          StartCheck(s, u, f, conn)
    \/ \E s \in StartThreads : StartInsert(s)
    \/ TickStart
    \/ \E c \in DOMAIN campaigns, conn \in ConnOutcomes : TickCampaign(c, conn)
    \/ \E k \in DOMAIN campaign_targets, answer \in ReplyAnswers(now),
          crm_ok, send_ok \in BOOLEAN :
          TargetStep(k, answer, crm_ok, send_ok)
    \/ CampaignFinish
    \/ AdvanceClock

CampaignSpec == Init /\ [][CampaignNext]_vars

\* the campaign machine with the record of the failed sends
RetryNext ==
    \/ \E s \in StartThreads, u \in Users, f \in FollowupsInput, conn \in ConnOutcomes :
          StartCheck(s, u, f, conn)
    \/ \E s \in StartThreads : StartInsert(s)
    \/ TickStart
    \/ \E c \in DOMAIN campaigns, conn \in ConnOutcomes : TickCampaign(c, conn)
    \/ \E k \in DOMAIN campaign_targets, answer \in ReplyAnswers(now),
          crm_ok, send_ok \in BOOLEAN :
          TargetStepNoted(k, answer, crm_ok, send_ok)
    \/ CampaignFinish
    \/ AdvanceClock

RetrySpec == Init /\ [][RetryNext]_vars

NoDrafts == drafts = [u \in Users |-> {}]

ScanInit ==
    /\ CampaignIdle
    /\ ScanIdle
    /\ NoCall
    /\ NoDrafts

ScanNext ==
    \/ \E u \in Users, conn \in ConnOutcomes : generate_queue(u, conn)
    \/ \E c \in ControlThreads, j \in DOMAIN QUEUE_JOBS : pause_queue_job(c, j)
    \/ \E c \in ControlThreads, j \in DOMAIN QUEUE_JOBS : resume_queue_job(c, j)
    \/ \E c \in ControlThreads : ControlApply(c)
    \/ \E u \in Users, d \in Domains, status \in UserStatuses : queue_decision(u, d, status)
    \/ \E j \in DOMAIN task, conn \in ConnOutcomes : TaskBegin(j, conn)
    \/ \E j \in DOMAIN task : WaitCheck(j)
    \/ \E j \in DOMAIN task : SetPaused(j)
    \/ \E j \in DOMAIN task : SetRunning(j)
    \/ \E j \in DOMAIN task, answer \in ListAnswers : YearList(j, answer)
    \/ \E j \in DOMAIN task, got \in SUBSET MsgIds, auto \in [Domains -> AutoStatuses] :
          BatchFetch(j, got, auto)
    \/ \E j \in DOMAIN task : CheckpointWrite(j)
    \/ \E j \in DOMAIN task, auto \in [Domains -> AutoStatuses] : FinalLoad(j, auto)
    \/ \E j \in DOMAIN task : FinalWrite(j)

ScanSpec == ScanInit /\ [][ScanNext]_vars


StoreNext ==
    \/ \E u \in Users, conn \in ConnOutcomes : generate_queue(u, conn)
    \/ \E u \in Users, d \in Domains, status \in UserStatuses : queue_decision(u, d, status)
    \/ \E j \in DOMAIN task, conn \in ConnOutcomes : TaskBegin(j, conn)
    \/ \E j \in DOMAIN task : WaitCheck(j)
    \/ \E j \in DOMAIN task : SetRunning(j)
    \/ \E j \in DOMAIN task, answer \in ListAnswers : YearList(j, answer)
    \/ \E j \in DOMAIN task, got \in SUBSET MsgIds, auto \in [Domains -> AutoStatuses] :
          BatchFetch(j, got, auto)
    \/ \E j \in DOMAIN task : CheckpointWrite(j)
    \/ \E j \in DOMAIN task, auto \in [Domains -> AutoStatuses] : FinalLoad(j, auto)
    \/ \E j \in DOMAIN task : FinalWrite(j)

StoreSpec == ScanInit /\ [][StoreNext]_vars

\* ------------------------------------------- the merge on arbitrary messages
\* mailbox owners and correspondents: the owner's own domain, a domain with
\* the owner's base label, a subdomain, a free-mail domain, a generic mailbox
OwnerDomains == {<<"own", "com">>, <<"acme", "com">>}

Addresses ==
    {Email("ann", <<"acme", "com">>), Email("info", <<"acme", "com">>),
     Email("me", <<"own", "com">>), Email("bob", <<"own", "io">>),
     Email("eve", <<"mail", "own", "com">>), Email("joe", <<"gmail", "com">>)}

\* the messages with a sender, one recipient, a thread and a date
Messages ==
    {[from_email |-> f, all_emails |-> {f, t}, thread_id |-> "t1", ts |-> ts] :
        f \in Addresses, t \in Addresses, ts \in {1, 2}}

MergeInit ==
    /\ CampaignIdle
    /\ ScanIdle
    /\ NoDrafts
    /\ input \in [own : OwnerDomains, merged : {{}}]
    /\ output = <<>>

\* lines 1569-1671: one more fetched message is merged into the entity map
MergeOne(msg) ==
    /\ msg \notin input.merged
    /\ Cardinality(input.merged) < MaxMerged
    /\ output' = MergeMessage(output, msg, input.own)
    /\ input' = [input EXCEPT !.merged = @ \cup {msg}]
    /\ UNCHANGED <<cvars, svars>>

MergeNext == \E msg \in Messages : MergeOne(msg)

MergeSpec == MergeInit /\ [][MergeNext]_vars

\* ------------------------------------------------- the scan of a long mailbox
\* Every list call succeeds and the first yearly window that lists anything
\* lists the whole mailbox; a metadata fetch may still return nothing, and any
\* step of the scan may raise an unexpected exception.
LongListings ==
    {[ok |-> TRUE, items |-> <<>>],
     [ok |-> TRUE, items |-> [m \in 1..LongMailbox |-> m]]}

AllPending == [d \in Domains |-> "pending"]

LongScanNext ==
    \/ \E u \in Users : generate_queue(u, "ok")
    \/ \E j \in DOMAIN task : TaskBegin(j, "ok")
    \/ \E j \in DOMAIN task : WaitCheck(j)
    \/ \E j \in DOMAIN task : SetRunning(j)
    \/ \E j \in DOMAIN task, answer \in LongListings : YearList(j, answer)
    \/ \E j \in DOMAIN task, got \in SUBSET (1..LongMailbox) :
          BatchFetch(j, got, AllPending)
    \/ \E j \in DOMAIN task : CheckpointWrite(j)
    \/ \E j \in DOMAIN task : FinalLoad(j, AllPending)
    \/ \E j \in DOMAIN task : FinalWrite(j)
    \/ \E j \in DOMAIN task : Unexpected(j)

LongScanSpec == ScanInit /\ [][LongScanNext]_vars

\* ---------------------------------------------------------- relevance score
\* A text is the sequence of its characters, so that the substring tests of
\* the code are computed.
UpperLetters ==
    <<"A", "B", "C", "D", "E", "F", "G", "H", "I", "J", "K", "L", "M", "N",
    "O", "P", "Q", "R", "S", "T", "U", "V", "W", "X", "Y", "Z">>

LowerLetters ==
    <<"a", "b", "c", "d", "e", "f", "g", "h", "i", "j", "k", "l", "m", "n",
    "o", "p", "q", "r", "s", "t", "u", "v", "w", "x", "y", "z">>

\* str.lower() on one character
LowerChar(c) ==
    IF \E i \in DOMAIN UpperLetters : UpperLetters[i] = c
    THEN LowerLetters[CHOOSE i \in DOMAIN UpperLetters : UpperLetters[i] = c]
    ELSE c

\* str.lower()
lower(s) == [i \in DOMAIN s |-> LowerChar(s[i])]

\* " ".join(parts)
RECURSIVE Join(_)
Join(parts) ==
    IF parts = <<>> THEN <<>>
    ELSE IF Len(parts) = 1 THEN Head(parts)
    ELSE Head(parts) \o <<" ">> \o Join(Tail(parts))

\* kw in text
Contains(text, kw) ==
    \E i \in 1..(Len(text) - Len(kw) + 1) : SubSeq(text, i, i + Len(kw) - 1) = kw

Min(a, b) == IF a <= b THEN a ELSE b

\* lines 91-113
BUSINESS_KEYWORDS ==
    {<<"m", "e", "e", "t", "i", "n", "g">>,
     <<"c", "a", "l", "l">>,
     <<"p", "r", "o", "p", "o", "s", "a", "l">>,
     <<"p", "a", "r", "t", "n", "e", "r", "s", "h", "i", "p">>,
     <<"p", "r", "i", "c", "i", "n", "g">>,
     <<"s", "c", "o", "p", "e">>,
     <<"t", "i", "m", "e", "l", "i", "n", "e">>,
     <<"d", "e", "a", "l">>,
     <<"f", "o", "l", "l", "o", "w", " ", "u", "p">>,
     <<"f", "o", "l", "l", "o", "w", "-", "u", "p">>,
     <<"d", "e", "m", "o">>,
     <<"s", "e", "r", "v", "i", "c", "e", "s">>,
     <<"n", "d", "a">>,
     <<"k", "i", "c", "k", "o", "f", "f">>,
     <<"p", "r", "o", "j", "e", "c", "t">>,
     <<"o", "p", "p", "o", "r", "t", "u", "n", "i", "t", "y">>,
     <<"c", "l", "i", "e", "n", "t">>,
     <<"c", "u", "s", "t", "o", "m", "e", "r">>,
     <<"i", "n", "t", "r", "o">>,
     <<"i", "n", "t", "r", "o", "d", "u", "c", "t", "i", "o", "n">>,
     <<"n", "e", "x", "t", " ", "s", "t", "e", "p">>}

Newsletter == <<"n", "e", "w", "s", "l", "e", "t", "t", "e", "r">>
Unsubscribe == <<"u", "n", "s", "u", "b", "s", "c", "r", "i", "b", "e">>

\* lines 825-836
text_relevance_score(subjects, snippets, stakeholders_count, days_since_last) ==
    LET text == lower(Join(subjects \o snippets))
        keyword_hits == Cardinality({kw \in BUSINESS_KEYWORDS : Contains(text, kw)})
        base == 35 + Min(35, keyword_hits * 7) + Min(12, stakeholders_count * 3)
                   + (IF days_since_last >= 14 THEN 8 ELSE 0)
                   + (IF days_since_last >= 45 THEN 6 ELSE 0)
        score == IF Contains(text, Newsletter) \/ Contains(text, Unsubscribe)
                 THEN base - 30 ELSE base
    IN Max({0, Min(100, score)})

\* the topics, snippets and ages the score is applied to
PartnershipProposal ==
    <<"P", "a", "r", "t", "n", "e", "r", "s", "h", "i", "p", " ", "p", "r",
    "o", "p", "o", "s", "a", "l">>

Topics ==
    {PartnershipProposal,
     <<"W", "e", "e", "k", "l", "y", " ", "N", "e", "w", "s", "l", "e", "t",
     "t", "e", "r">>,
     <<"H", "e", "l", "l", "o">>,
     <<"P", "r", "o", "j", "e", "c", "t", " ", "k", "i", "c", "k", "o", "f",
     "f", " ", "c", "a", "l", "l">>}

SnippetTexts ==
    {<<"p", "l", "e", "a", "s", "e", " ", "u", "n", "s", "u", "b", "s", "c",
     "r", "i", "b", "e", " ", "m", "e">>,
     <<"s", "e", "e", " ", "y", "o", "u", " ", "a", "t", " ", "t", "h", "e", " ",
     "d", "e", "m", "o">>}

DaysSince == {0, 14, 20, 45}

ScoreInit ==
    /\ CampaignIdle /\ ScanIdle /\ NoDrafts
    /\ input \in [subjects : {<<>>} \cup {<<t>> : t \in Topics},
                   snippets : {<<>>} \cup {<<t>> : t \in SnippetTexts},
                   stakeholders_count : 0..MaxStakeholders,
                   days_since_last : DaysSince]
    /\ output = <<>>

\* line 1307: the call of text_relevance_score
ApplyScore ==
    /\ output = <<>>
    /\ output' = <<text_relevance_score(input.subjects, input.snippets,
                                        input.stakeholders_count,
                                        input.days_since_last)>>
    /\ UNCHANGED <<cvars, svars, input>>

ScoreNext == ApplyScore

ScoreSpec == ScoreInit /\ [][ScoreNext]_vars

\* ------------------------------------------------------------ readiness gate
\* scripts/sync_pipedrive_to_notion_opportunities.py
StageOrder ==
    <<"Future pipeline", "Scope Definition", "Estimation", "Validation", "Presented">>

\* a stage the order does not list
UnlistedStage == "Archive"

Stages == Range(StageOrder) \cup {UnlistedStage}

CheckNames == {"brief", "scope", "estimate"}

\* the gates of the readiness rules: the required checks of a stage, in the
\* order the rules list them
GateRules ==
    {[s \in {"Estimation", "Validation"} |->
         IF s = "Estimation" THEN <<"brief", "scope">> ELSE <<"estimate">>],
     [s \in {"Future pipeline", UnlistedStage, "Presented"} |->
         IF s = "Presented" THEN <<"estimate", "brief", "estimate">> ELSE <<"brief">>]}

\* the dicts of checks: a check is absent, False or True
CheckDicts == UNION {[keys -> BOOLEAN] : keys \in SUBSET CheckNames}

\* dict.get(key, default)
Get(dict, key, default) == IF key \in DOMAIN dict THEN dict[key] ELSE default

NoReason == <<>>

\* line 128: the template filled with the target stage and the missing
\* checks joined in their order
Reason(target_stage, missing) ==
    <<"Blocked move to ", target_stage, ": missing ", missing>>

\* list.index(x): the first position of x
Index(seq, x) == CHOOSE i \in DOMAIN seq : seq[i] = x /\ \A j \in 1..(i - 1) : seq[j] # x

\* mutant: the blocked move keeps the target stage
evaluate_gate_NoRollback(target_stage, checks, readiness_rules, stage_order) ==
    LET required_checks == Get(readiness_rules.gates, target_stage, <<>>)
        missing == SelectSeq(required_checks, LAMBDA chk : ~Get(checks, chk, FALSE))
    IN IF missing = <<>> THEN <<target_stage, NoReason>>
       ELSE <<target_stage, Reason(target_stage, missing)>>

\* lines 116-140
evaluate_gate(target_stage, checks, readiness_rules, stage_order) ==
    LET required_checks == Get(readiness_rules.gates, target_stage, <<>>)
        missing == SelectSeq(required_checks, LAMBDA chk : ~Get(checks, chk, FALSE))
        reason == Reason(target_stage, missing)
    IN IF missing = <<>> THEN <<target_stage, NoReason>>
       ELSE IF ~readiness_rules.hard_rollback THEN <<target_stage, reason>>
       ELSE IF target_stage \notin Range(stage_order) THEN <<target_stage, reason>>
       ELSE IF Index(stage_order, target_stage) = 1 THEN <<target_stage, reason>>
       ELSE <<stage_order[Index(stage_order, target_stage) - 1], reason>>

GateInit ==
    /\ CampaignIdle /\ ScanIdle /\ NoDrafts
    /\ input \in [target_stage : Stages, checks : CheckDicts,
                   readiness_rules : [gates : GateRules, hard_rollback : BOOLEAN]]
    /\ output = <<>>

ApplyGate ==
    /\ output = <<>>
    /\ output' = <<evaluate_gate(input.target_stage, input.checks,
                                 input.readiness_rules, StageOrder)>>
    /\ UNCHANGED <<cvars, svars, input>>

GateNext == ApplyGate

GateSpec == GateInit /\ [][GateNext]_vars

\* -------------------------------------------------------------- upsert plan
\* scripts/sync_pipedrive_to_notion_opportunities.py
DealIds == 1..2

\* an update_time "YYYY-MM-DD HH:MM:SS": its day and its hour
UpdateTimes == [day : 1..2, hour : 1..2]

DealRows == [id : DealIds, update_time : UpdateTimes]

\* lines 26-46: parse_date returns the date of the text, without its time
parse_date(value) == value.day

\* lines 145-157: one iteration of the loop over the deals
DedupeStep(best, d) ==
    IF d.id \notin DOMAIN best THEN best @@ (d.id :> d)
    ELSE IF parse_date(d.update_time) >= parse_date(best[d.id].update_time)
    THEN [best EXCEPT ![d.id] = d]
    ELSE best

RECURSIVE DedupeFrom(_, _)
DedupeFrom(best, deal_rows) ==
    IF deal_rows = <<>> THEN best
    ELSE DedupeFrom(DedupeStep(best, Head(deal_rows)), Tail(deal_rows))

\* lines 143-158: the dict best, whose values the function returns
dedupe_by_deal_id(deal_rows) == DedupeFrom(<<>>, deal_rows)

\* lines 508-517
plan_upsert_actions(rows, existing_by_id) ==
    LET best == dedupe_by_deal_id(rows)
    IN [creates |-> Cardinality({did \in DOMAIN best : did \notin existing_by_id}),
        updates |-> Cardinality({did \in DOMAIN best : did \in existing_by_id})]

RowLists == UNION {[1..n -> DealRows] : n \in 0..MaxRows}

UpsertInit ==
    /\ CampaignIdle /\ ScanIdle /\ NoDrafts
    /\ input \in [rows : RowLists, existing : SUBSET DealIds]
    /\ output = <<>>

ApplyUpsertPlan ==
    /\ output = <<>>
    /\ output' = <<[deduped |-> dedupe_by_deal_id(input.rows),
                    actions |-> plan_upsert_actions(input.rows, input.existing)]>>
    /\ UNCHANGED <<cvars, svars, input>>

UpsertNext == ApplyUpsertPlan

UpsertSpec == UpsertInit /\ [][UpsertNext]_vars

\* --------------------------------------------------- the scan that completes
\* Every remote call succeeds; the task of a job and a pause or resume call
\* that has passed its check keep running (the event loop schedules the task,
\* the pause loop wakes every 0.4 s, a handler thread runs to its end).
LiveListings ==
    {[ok |-> TRUE, items |-> <<>>],
     [ok |-> TRUE, items |-> [m \in MsgIds |-> m]]}

\* the steps of the task of job j
TaskStep(j) ==
    /\ j \in DOMAIN task
    /\ \/ TaskBegin(j, "ok")
       \/ WaitCheck(j)
       \/ SetPaused(j)
       \/ SetRunning(j)
       \/ \E answer \in LiveListings : YearList(j, answer)
       \/ \E got \in SUBSET MsgIds : BatchFetch(j, got, AllPending)
       \/ CheckpointWrite(j)
       \/ FinalLoad(j, AllPending)
       \/ FinalWrite(j)

LiveNext ==
    \/ \E u \in Users : generate_queue(u, "ok")
    \/ \E c \in ControlThreads, j \in DOMAIN QUEUE_JOBS : pause_queue_job(c, j)
    \/ \E c \in ControlThreads, j \in DOMAIN QUEUE_JOBS : resume_queue_job(c, j)
    \/ \E c \in ControlThreads : ControlApply(c)
    \/ \E j \in 1..MaxJobs : TaskStep(j)

LiveSpec ==
    /\ ScanInit
    /\ [][LiveNext]_vars
    /\ \A j \in 1..MaxJobs : WF_vars(TaskStep(j))
    /\ WF_vars(\E c \in ControlThreads : ControlApply(c))

\* ------------------------------------------- the message ids of one scan
\* The messages a query matches, as the provider lists them: each once, in
\* the provider's order.
RECURSIVE Listed(_)
Listed(S) ==
    IF S = {} THEN <<>>
    ELSE LET m == CHOOSE x \in S : \A y \in S : x <= y
         IN <<m>> \o Listed(S \ {m})

\* lines 1363-1393: the pages are read until the limit is reached or the
\* source is exhausted; a limit of zero or less lists nothing
fetch_gmail_message_ids(matching, limit) ==
    IF limit = NULL THEN matching
    ELSE IF limit <= 0 THEN <<>>
    ELSE SubSeq(matching, 1, Min(limit, Len(matching)))

\* lines 1503-1520: the yearly windows, newest first, each listed with the
\* cap and entered into the dict
RECURSIVE YearIds(_, _, _, _)
YearIds(ids, windows, year, max_msgs) ==
    IF year <= RangeStop THEN ids
    ELSE YearIds(Dedup(ids, fetch_gmail_message_ids(windows[year], max_msgs)),
                 windows, year - 1, max_msgs)

\* mutant: the refill appended without looking the id up in the dict
RECURSIVE Refill_KeepsAll(_, _, _)
Refill_KeepsAll(ids, refill, max_msgs) ==
    IF refill = <<>> THEN ids
    ELSE LET added == Append(ids, Head(refill))
         IN IF Len(added) >= max_msgs THEN added
            ELSE Refill_KeepsAll(added, Tail(refill), max_msgs)

\* lines 1523-1529: an id of the refill list is appended when the dict does
\* not hold it; the loop stops once the cap is reached
RECURSIVE Refill(_, _, _)
Refill(ids, refill, max_msgs) ==
    IF refill = <<>> THEN ids
    ELSE LET added == IF Head(refill) \in Range(ids) THEN ids
                      ELSE Append(ids, Head(refill))
         IN IF Len(added) >= max_msgs THEN added
            ELSE Refill(added, Tail(refill), max_msgs)

\* lines 1502-1548: the ids of the windows, topped up by the un-windowed
\* query when a cap is given and not reached, then cut at the cap
ScanIds(windows, unwindowed, max_msgs) ==
    LET ids == YearIds(<<>>, windows, CurrentYear, max_msgs)
        topped == IF max_msgs # NULL /\ Len(ids) < max_msgs
                  THEN Refill(ids, fetch_gmail_message_ids(unwindowed, max_msgs), max_msgs)
                  ELSE ids
    IN IF max_msgs # NULL
       THEN SubSeq(topped, 1, Min(Max({max_msgs, 0}), Len(topped)))
       ELSE topped

\* lines 1550-1568: the batches mids[i : i + batch_size] in the order in
\* which their messages are handed to fetch_one
RECURSIVE FetchLog(_, _)
FetchLog(mids, i) ==
    IF i >= Len(mids) THEN <<>>
    ELSE Batch([ids |-> mids, i |-> i]) \o FetchLog(mids, i + BatchSize)

\* lines 1569-1571: a fetch that did not return a message is skipped
RECURSIVE MergeLog(_, _)
MergeLog(log, lost) ==
    IF log = <<>> THEN <<>>
    ELSE (IF Head(log) \in lost THEN <<>> ELSE <<Head(log)>>)
         \o MergeLog(Tail(log), lost)

\* line 1741 hands a cap or none to the scan; the caps are scaled to the
\* mailbox: below, at and above the number of its messages
Caps == {NULL} \cup (1..(MaxMsgs + 1))
ScanYears == (RangeStop + 1)..CurrentYear

IdsInit ==
    /\ CampaignIdle
    /\ ScanIdle
    /\ NoDrafts
    /\ input \in [windows : [ScanYears -> {Listed(S) : S \in SUBSET MsgIds}],
                  unwindowed : {Listed(S) : S \in SUBSET MsgIds},
                  max_msgs : Caps]
    /\ output = <<>>

ApplyScanIds ==
    /\ output = <<>>
    /\ \E lost \in SUBSET MsgIds :
          LET mids == ScanIds(input.windows, input.unwindowed, input.max_msgs)
              log == FetchLog(mids, 0)
          IN output' = [mids |-> mids, fetched |-> log, merged |-> MergeLog(log, lost)]
    /\ UNCHANGED <<cvars, svars, input>>

IdsNext == ApplyScanIds

IdsSpec == IdsInit /\ [][IdsNext]_vars

\* ------------------------------------------------- the metadata fetch pool
\* line 1536
concurrency == 16

\* The pool of one scan: output.sem is the value of the semaphore of line
\* 1538, and the fetch_one calls of the batch in hand are counted by their
\* position: created by gather and not yet run, waiting in the semaphore,
\* in flight (inside "async with sem", awaiting the metadata) and returned.
PoolInit ==
    /\ CampaignIdle
    /\ ScanIdle
    /\ NoDrafts
    /\ input = [batch |-> 0]
    /\ output = [sem |-> concurrency, created |-> 0, waiting |-> 0,
                 in_flight |-> 0, returned |-> 0]

\* lines 1567-1568: gather creates one fetch_one per message of the batch;
\* the loop reaches it again when every fetch of the batch before returned
Gather(n) ==
    /\ output.created = 0
    /\ output.waiting = 0
    /\ output.in_flight = 0
    /\ input' = [batch |-> n]
    /\ output' = [output EXCEPT !.created = n, !.returned = 0]
    /\ UNCHANGED <<cvars, svars>>

\* mutant: fetch_one without the semaphore
Acquire_NoSemaphore ==
    /\ output.created > 0
    /\ output' = [output EXCEPT !.created = @ - 1, !.in_flight = @ + 1]
    /\ UNCHANGED <<cvars, svars, input>>

\* line 1541: a fetch_one enters "async with sem" while the semaphore is free
Acquire ==
    /\ output.created > 0
    /\ output.sem > 0
    /\ output.waiting = 0
    /\ output' = [output EXCEPT !.created = @ - 1, !.sem = @ - 1,
                                !.in_flight = @ + 1]
    /\ UNCHANGED <<cvars, svars, input>>

\* line 1541: a fetch_one finds the semaphore taken and waits in it
Block ==
    /\ output.created > 0
    /\ output.sem = 0 \/ output.waiting > 0
    /\ output' = [output EXCEPT !.created = @ - 1, !.waiting = @ + 1]
    /\ UNCHANGED <<cvars, svars, input>>

\* line 1541: a waiting fetch_one is woken by a release and enters
Wake ==
    /\ output.waiting > 0
    /\ output.sem > 0
    /\ output' = [output EXCEPT !.waiting = @ - 1, !.sem = @ - 1,
                                !.in_flight = @ + 1]
    /\ UNCHANGED <<cvars, svars, input>>

\* lines 1541-1542: the metadata call returns or raises, and leaving
\* "async with sem" releases the semaphore
Complete ==
    /\ output.in_flight > 0
    /\ output' = [output EXCEPT !.in_flight = @ - 1, !.sem = @ + 1,
                                !.returned = @ + 1]
    /\ UNCHANGED <<cvars, svars, input>>

PoolNext ==
    \/ \E n \in 1..MaxBatch : Gather(n)
    \/ Acquire
    \/ Block
    \/ Wake
    \/ Complete

PoolSpec == PoolInit /\ [][PoolNext]_vars

\* --------------------------------------------- the metadata of one batch
\* what fetch_one hands to gather: the message, None, or the exception raised
Fetched(m) == [kind |-> "dict", id |-> m]
None == [kind |-> "None", id |-> 0]
Raised == [kind |-> "exception", id |-> 0]

\* lines 1396-1410: an error status answers None; an exception of the client
\* (timeout, unreadable body) leaves the call
fetch_gmail_message_metadata(message_id, answer) ==
    IF answer = "raised" THEN Raised
    ELSE IF answer = "error_status" THEN None
    ELSE Fetched(message_id)

\* mutant: gather without return_exceptions, the first exception leaves it
gather_Raises(results) ==
    [raised |-> \E k \in DOMAIN results : results[k] = Raised, results |-> results]

\* line 1568: gather(..., return_exceptions=True) returns the exceptions among
\* the results, in the order of the batch, and raises nothing itself
gather(results) == [raised |-> FALSE, results |-> results]

\* what the metadata calls of a batch answer
FetchAnswers == {"message", "error_status", "raised"}

FetchInit ==
    /\ CampaignIdle
    /\ ScanIdle
    /\ NoDrafts
    /\ input \in [batch : {Listed(S) : S \in (SUBSET (1..LongMailbox)) \ {{}}},
                  answers : [1..LongMailbox -> FetchAnswers]]
    /\ output = <<>>

\* lines 1567-1671: the batch is fetched and every result that is a message
\* is merged; an exception that leaves gather ends generate_queue_result in
\* its handler (lines 1716-1725)
ApplyFetchBatch ==
    /\ output = <<>>
    /\ LET batch == input.batch
           results == [k \in DOMAIN batch |->
                          fetch_gmail_message_metadata(batch[k], input.answers[batch[k]])]
           gathered == gather(results)
           fetched == gathered.results
           got == {fetched[k].id : k \in {x \in DOMAIN fetched : fetched[x].kind = "dict"}}
       IN output' = IF gathered.raised
                    THEN [failed |-> TRUE, orgs |-> <<>>]
                    ELSE [failed |-> FALSE,
                          orgs |-> MergeBatch(<<>>, batch, got, own_domain("u1"))]
    /\ UNCHANGED <<cvars, svars, input>>

FetchNext == ApplyFetchBatch

FetchSpec == FetchInit /\ [][FetchNext]_vars

\* ------------------------------------------ the merge with its text fields
\* the subjects and snippets of the messages that are merged
Invoice42 ==
    <<"I", "n", "v", "o", "i", "c", "e", " ", "4", "2">>
PaymentDue ==
    <<"P", "a", "y", "m", "e", "n", "t", " ", "d", "u", "e">>
LiteralInvoice ==
    <<"\\", "b", "I", "n", "v", "o", "i", "c", "e", "\\", "b", " ", "4", "2">>
LiteralPassword ==
    <<"Y", "o", "u", "r", " ", "\\", "b", "p", "a", "s", "s", "w", "o", "r", "d", "\\", "b">>
SnippetHello ==
    <<"h", "e", "l", "l", "o">>
SnippetThanks ==
    <<"t", "h", "a", "n", "k", "s">>
KickoffCall ==
    <<"P", "r", "o", "j", "e", "c", "t", " ", "k", "i", "c", "k", "o", "f", "f", " ", "c", "a", "l", "l">>

\* line 1625: the snippets an organization retains
SnippetCap == 8

\* lines 709-717: the display name of the From header when its address is em
guess_name_from_header(msg, em) ==
    IF msg.from_email = em THEN msg.from_name ELSE ""

\* lines 1608-1619: the organization with the fields MergeInto leaves out
NewTextOrg ==
    [message_count |-> 0, last_message_at |-> 0, primary_contact_email |-> NoEmail,
     stakeholders |-> <<>>, threads |-> <<>>,
     subjects |-> <<>>, snippets |-> <<>>, primary_contact_name |-> "",
     names |-> <<>>, thread_texts |-> <<>>]

\* lines 1622-1671 for one domain of the message: the counts and dates of
\* MergeInto, and the subject histogram, the snippets, the contact and
\* stakeholder names and the subject and sample of the thread; a text is the
\* sequence of its characters, and the Counter of the subjects is the
\* sequence of its [sub, count] entries in insertion order
MergeTexts(org, msg, dom) ==
    LET base == MergeInto(org, msg, dom)
        newer == org.last_message_at = 0 \/ msg.ts > org.last_message_at
        named(em) ==
            IF em \in msg.all_emails /\ msg.from_email = em
            THEN guess_name_from_header(msg, em)
            ELSE IF em \in DOMAIN org.names THEN org.names[em] ELSE ""
        texts(tid) ==
            IF tid \notin DOMAIN org.threads
            THEN [subject |-> msg.subject, sample |-> msg.snippet]
            ELSE IF tid = msg.thread_id /\ msg.ts > org.threads[tid].last_message_at
            THEN [subject |-> IF msg.subject # <<>> THEN msg.subject
                              ELSE org.thread_texts[tid].subject,
                  sample |-> IF msg.snippet # <<>> THEN msg.snippet
                             ELSE org.thread_texts[tid].sample]
            ELSE org.thread_texts[tid]
    IN [message_count |-> base.message_count,
        last_message_at |-> base.last_message_at,
        primary_contact_email |-> base.primary_contact_email,
        stakeholders |-> base.stakeholders,
        threads |-> base.threads,
        subjects |-> IF msg.subject = <<>> THEN org.subjects
                     ELSE IF \E x \in DOMAIN org.subjects : org.subjects[x].sub = msg.subject
                     THEN [x \in DOMAIN org.subjects |->
                             IF org.subjects[x].sub = msg.subject
                             THEN [org.subjects[x] EXCEPT !.count = @ + 1]
                             ELSE org.subjects[x]]
                     ELSE Append(org.subjects, [sub |-> msg.subject, count |-> 1]),
        snippets |-> IF msg.snippet # <<>> /\ Len(org.snippets) < SnippetCap
                     THEN Append(org.snippets, msg.snippet) ELSE org.snippets,
        primary_contact_name |->
            IF newer /\ msg.from_email # NoEmail /\ msg.from_email.domain = dom
            THEN guess_name_from_header(msg, msg.from_email)
            ELSE org.primary_contact_name,
        names |-> [em \in DOMAIN base.stakeholders |-> named(em)],
        thread_texts |-> [tid \in DOMAIN base.threads |-> texts(tid)]]

\* lines 1572-1671 for one fetched message, text fields included
MergeTextMessage(orgs, msg, own) ==
    LET domains == MessageDomains(msg, own)
    IN [d \in DOMAIN orgs \cup domains |->
          IF d \in domains
          THEN MergeTexts(IF d \in DOMAIN orgs THEN orgs[d] ELSE NewTextOrg, msg, d)
          ELSE orgs[d]]

\* messages of one thread between the owner and ann@acme.com, in either
\* direction, with or without a subject and a snippet
TextMessages ==
    {[from_email |-> f, from_name |-> n,
      all_emails |-> {Email("ann", <<"acme", "com">>), Email("me", <<"own", "com">>)},
      thread_id |-> "t1", ts |-> ts, subject |-> su, snippet |-> sn] :
        f \in {Email("ann", <<"acme", "com">>), Email("me", <<"own", "com">>)},
        n \in {"Ann", "Ann Lee"}, ts \in 1..MaxMerged,
        su \in {<<>>, KickoffCall}, sn \in {<<>>, SnippetHello, SnippetThanks}}

CommuteInit ==
    /\ CampaignIdle
    /\ ScanIdle
    /\ NoDrafts
    /\ input \in [first : TextMessages, second : TextMessages]
    /\ output = <<>>

\* lines 1569-1671: the two messages of a batch merged in either order
ApplyMergeOrders ==
    /\ output = <<>>
    /\ LET own == own_domain("u1")
       IN output' =
            [forward |-> MergeTextMessage(MergeTextMessage(<<>>, input.first, own),
                                          input.second, own),
             backward |-> MergeTextMessage(MergeTextMessage(<<>>, input.second, own),
                                           input.first, own)]
    /\ UNCHANGED <<cvars, svars, input>>

CommuteNext == ApplyMergeOrders

CommuteSpec == CommuteInit /\ [][CommuteNext]_vars

\* ------------------------------------------------------ the rows of the queue
\* str.strip() on the spaces of both ends
RECURSIVE LStrip(_)
LStrip(s) == IF s # <<>> /\ Head(s) = " " THEN LStrip(Tail(s)) ELSE s

RECURSIVE RStrip(_)
RStrip(s) ==
    IF s # <<>> /\ s[Len(s)] = " " THEN RStrip(SubSeq(s, 1, Len(s) - 1)) ELSE s

Strip(s) == RStrip(LStrip(s))

StartsWith(s, p) == Len(s) >= Len(p) /\ SubSeq(s, 1, Len(p)) = p

\* the letters s that a pattern "\\s*" consumes: a backslash, then any
\* number of letters s
RECURSIVE SkipEss(_)
SkipEss(s) == IF s # <<>> /\ LowerChar(Head(s)) = "s" THEN SkipEss(Tail(s)) ELSE s

\* line 845: re.sub(r"^(re|fw|fwd)\\s*:\\s*", "", v, flags=re.IGNORECASE).  In
\* the raw string the doubled backslash is a literal backslash, so the
\* pattern is: re, fw or fwd, a backslash, letters s, a colon, a backslash,
\* letters s.  What is left of v after the match, or v.
AfterLiteral(s) ==
    IF s = <<>> \/ Head(s) # "\\" THEN <<"no match">>
    ELSE LET t == SkipEss(Tail(s))
         IN IF t = <<>> \/ Head(t) # ":" THEN <<"no match">>
            ELSE IF Tail(t) = <<>> \/ Head(Tail(t)) # "\\" THEN <<"no match">>
            ELSE SkipEss(Tail(Tail(t)))

StripReplyPrefix(v) ==
    LET low == lower(v)
        try(p) == IF StartsWith(low, p)
                  THEN AfterLiteral(SubSeq(v, Len(p) + 1, Len(v)))
                  ELSE <<"no match">>
        re == try(<<"r", "e">>)
        fw == try(<<"f", "w">>)
        fwd == try(<<"f", "w", "d">>)
    IN IF re # <<"no match">> THEN re
       ELSE IF fw # <<"no match">> THEN fw
       ELSE IF fwd # <<"no match">> THEN fwd
       ELSE v

\* line 841
MostCommon == 5
\* line 848
TopicCap == 3

\* Counter.most_common(n) on a counter kept as the sequence of its
\* [sub, count] entries in insertion order: by count, ties in insertion order
RECURSIVE most_common(_, _)
most_common(counter, n) ==
    IF n = 0 \/ counter = <<>> THEN <<>>
    ELSE LET k == CHOOSE i \in DOMAIN counter :
                     /\ \A x \in DOMAIN counter : counter[x].count <= counter[i].count
                     /\ \A x \in 1..(i - 1) : counter[x].count < counter[i].count
         IN <<counter[k]>> \o
            most_common([x \in 1..(Len(counter) - 1) |->
                            IF x < k THEN counter[x] ELSE counter[x + 1]], n - 1)

\* lines 840-848
RECURSIVE TopicsOf(_, _)
TopicsOf(common, topics) ==
    IF common = <<>> THEN topics
    ELSE LET v == Strip(Head(common).sub)
             clean == Strip(StripReplyPrefix(v))
         IN TopicsOf(Tail(common),
                     IF v # <<>> /\ clean # <<>>
                        /\ lower(clean) \notin {lower(topics[x]) : x \in DOMAIN topics}
                     THEN Append(topics, clean) ELSE topics)

summarize_topics(subject_counter) ==
    LET topics == TopicsOf(most_common(subject_counter, MostCommon), <<>>)
    IN SubSeq(topics, 1, Min(TopicCap, Len(topics)))

\* lines 72-81: each pattern is compiled from r"\\bword\\b", a backslash, the
\* letter b, the word, a backslash, the letter b, searched without regard
\* to case
NOISE_SUBJECT_PATTERNS ==
    {<<"\\", "b", "n", "e", "w", "s", "l", "e", "t", "t", "e", "r", "\\", "b">>,
     <<"\\", "b", "n", "o", "t", "i", "f", "i", "c", "a", "t", "i", "o", "n", "\\", "b">>,
     <<"\\", "b", "s", "e", "c", "u", "r", "i", "t", "y", " ", "a", "l", "e", "r", "t", "\\", "b">>,
     <<"\\", "b", "p", "a", "s", "s", "w", "o", "r", "d", "\\", "b">>,
     <<"\\", "b", "i", "n", "v", "o", "i", "c", "e", "\\", "b">>,
     <<"\\", "b", "p", "a", "y", "m", "e", "n", "t", " ", "d", "u", "e", "\\", "b">>,
     <<"\\", "b", "v", "e", "r", "i", "f", "i", "c", "a", "t", "i", "o", "n", "\\", "b">>,
     <<"\\", "b", "s", "u", "b", "s", "c", "r", "i", "p", "t", "i", "o", "n", "\\", "b">>}

\* lines 808-810
has_noise_subject(subject) ==
    \E p \in NOISE_SUBJECT_PATTERNS : Contains(lower(subject), p)

\* line 1308
FollowupCap == 10
\* line 1320: the score below which an organization is auto-rejected
LowRelevance == 45

\* lines 1309-1322: the reasons in the order in which they are appended
auto_reasons(topics, stakeholders, followup_score) ==
    LET subject_noise == Cardinality({x \in DOMAIN topics : has_noise_subject(topics[x])})
    IN (IF subject_noise >= 2 THEN <<"newsletter_or_system_subject">> ELSE <<>>)
       \o (IF \A em \in stakeholders : is_noise_sender(em)
           THEN <<"automated_senders_only">> ELSE <<>>)
       \o (IF (\E em \in stakeholders : is_generic_localpart(em))
              /\ Cardinality(stakeholders) <= 1
           THEN <<"generic_mailbox_only">> ELSE <<>>)
       \o (IF followup_score < LowRelevance THEN <<"low_relevance">> ELSE <<>>)

\* lines 1297-1322 for one organization that gets a row: its topics, scores,
\* auto_status and reasons
build_row(org, days_since_last) ==
    LET threads == DOMAIN org.threads
        stakeholders == DOMAIN org.stakeholders
        topics == summarize_topics(org.subjects)
        business_score == text_relevance_score(topics, org.snippets,
                                               Cardinality(stakeholders), days_since_last)
        followup_score == Max({0, Min(100, business_score
                                           + Min(FollowupCap, Cardinality(threads)))})
        reasons == auto_reasons(topics, stakeholders, followup_score)
    IN [topics |-> topics,
        stakeholders |-> stakeholders,
        business_score |-> business_score,
        followup_score |-> followup_score,
        auto_status |-> IF reasons = <<>> THEN "pending" ELSE "auto_reject",
        auto_reasons |-> reasons]

\* the senders at acme.com: a person, a generic mailbox and an alert sender
RowSenders ==
    {Email("ann", <<"acme", "com">>), Email("info", <<"acme", "com">>),
     Email("alerts", <<"acme", "com">>)}

\* messages to the owner in one thread
RowMessages ==
    {[from_email |-> f, from_name |-> "",
      all_emails |-> {f, Email("me", <<"own", "com">>)},
      thread_id |-> "t1", ts |-> 1, subject |-> su, snippet |-> <<>>] :
        f \in RowSenders,
        su \in {Invoice42, PaymentDue, LiteralInvoice, LiteralPassword, KickoffCall}}

\* line 1299: the days since the last message of the organization
RowAges == {0, 45}

RowInit ==
    /\ CampaignIdle
    /\ ScanIdle
    /\ NoDrafts
    /\ input \in [first : RowMessages, second : RowMessages, days_since_last : RowAges]
    /\ output = <<>>

\* lines 1569-1671 and 1286-1322: two messages are merged and the rows of the
\* organizations are built
ApplyBuildRows ==
    /\ output = <<>>
    /\ LET own == own_domain("u1")
           orgs == MergeTextMessage(MergeTextMessage(<<>>, input.first, own),
                                    input.second, own)
       IN output' = [orgs |-> orgs,
                     rows |-> [d \in Surfaced(orgs) |->
                                  build_row(orgs[d], input.days_since_last)]]
    /\ UNCHANGED <<cvars, svars, input>>

RowNext == ApplyBuildRows

RowSpec == RowInit /\ [][RowNext]_vars

\* -------------------------------------------------------- the worker loop
\* output.tasks are the tasks created for campaign_worker_loop, each at
\* "start" (created, not yet run), "tick" (inside
\* process_active_campaigns_once), "sleep" (inside asyncio.sleep(60)) or
\* "done"; output.CAMPAIGN_WORKER_TASK is the global of that name, 0 for None.
NewWorker == [pc |-> "start", cancel |-> FALSE, ticks |-> 0, swallowed |-> 0]

WorkerInit ==
    /\ CampaignIdle
    /\ ScanIdle
    /\ NoDrafts
    /\ input = [startups |-> 0]
    /\ output = [CAMPAIGN_WORKER_TASK |-> 0, tasks |-> <<>>, stopping |-> FALSE]

\* mutant: a task is created whether or not one is running
start_campaign_worker_NoGuard ==
    /\ input.startups < MaxStartups
    /\ ~output.stopping
    /\ input' = [startups |-> input.startups + 1]
    /\ output' = [output EXCEPT !.tasks = Append(@, NewWorker),
                                !.CAMPAIGN_WORKER_TASK = Len(output.tasks) + 1]
    /\ UNCHANGED <<cvars, svars>>

\* lines 344-349: nothing is created while the task of the global runs
start_campaign_worker ==
    /\ input.startups < MaxStartups
    /\ ~output.stopping
    /\ input' = [startups |-> input.startups + 1]
    /\ IF /\ output.CAMPAIGN_WORKER_TASK # 0
          /\ output.tasks[output.CAMPAIGN_WORKER_TASK].pc # "done"
       THEN UNCHANGED output
       ELSE output' = [output EXCEPT !.tasks = Append(@, NewWorker),
                                     !.CAMPAIGN_WORKER_TASK = Len(output.tasks) + 1]
    /\ UNCHANGED <<cvars, svars>>

\* lines 1276-1278: the loop enters process_active_campaigns_once, at the
\* start of the task and after every sleep
TickBegin(k) ==
    /\ output.tasks[k].pc \in {"start", "wake"}
    /\ ~output.tasks[k].cancel
    /\ output.tasks[k].ticks < MaxTicks
    /\ output' = [output EXCEPT !.tasks[k].pc = "tick", !.tasks[k].ticks = @ + 1]
    /\ UNCHANGED <<cvars, svars, input>>

\* line 1278 returns; line 1283 begins the sleep
TickReturns(k) ==
    /\ output.tasks[k].pc = "tick"
    /\ output' = [output EXCEPT !.tasks[k].pc = "sleep"]
    /\ UNCHANGED <<cvars, svars, input>>

\* lines 1281-1283: an exception of the tick is swallowed and the sleep begins
TickRaises(k) ==
    /\ output.tasks[k].pc = "tick"
    /\ output' = [output EXCEPT !.tasks[k].pc = "sleep", !.tasks[k].swallowed = @ + 1]
    /\ UNCHANGED <<cvars, svars, input>>

\* line 1283: the sleep of 60 seconds is over
SleepEnds(k) ==
    /\ output.tasks[k].pc = "sleep"
    /\ ~output.tasks[k].cancel
    /\ output' = [output EXCEPT !.tasks[k].pc = "wake"]
    /\ UNCHANGED <<cvars, svars, input>>

\* lines 352-356: the shutdown handler cancels the task of the global
stop_campaign_worker ==
    /\ ~output.stopping
    /\ output.tasks # <<>>
    /\ output' = [output EXCEPT
          !.stopping = TRUE,
          !.tasks = IF /\ output.CAMPAIGN_WORKER_TASK # 0
                       /\ output.tasks[output.CAMPAIGN_WORKER_TASK].pc # "done"
                    THEN [@ EXCEPT ![output.CAMPAIGN_WORKER_TASK].cancel = TRUE]
                    ELSE @]
    /\ UNCHANGED <<cvars, svars, input>>

\* lines 1279-1280: CancelledError is raised at the await the task is in
\* and leaves the loop
Cancelled(k) ==
    /\ output.tasks[k].cancel
    /\ output.tasks[k].pc # "done"
    /\ output' = [output EXCEPT !.tasks[k].pc = "done"]
    /\ UNCHANGED <<cvars, svars, input>>

\* lines 357-361: the handler has awaited the task and clears the global
StopFinish ==
    /\ output.stopping
    /\ IF output.CAMPAIGN_WORKER_TASK = 0 THEN TRUE
       ELSE output.tasks[output.CAMPAIGN_WORKER_TASK].pc = "done"
    /\ output' = [output EXCEPT !.stopping = FALSE, !.CAMPAIGN_WORKER_TASK = 0]
    /\ UNCHANGED <<cvars, svars, input>>

WorkerNext ==
    \/ start_campaign_worker
    \/ \E k \in DOMAIN output.tasks : TickBegin(k)
    \/ \E k \in DOMAIN output.tasks : TickReturns(k)
    \/ \E k \in DOMAIN output.tasks : TickRaises(k)
    \/ \E k \in DOMAIN output.tasks : SleepEnds(k)
    \/ stop_campaign_worker
    \/ \E k \in DOMAIN output.tasks : Cancelled(k)
    \/ StopFinish

WorkerSpec == WorkerInit /\ [][WorkerNext]_vars

\* -------------------------------------------------------- generate_drafts
\* input.rows is the user's queue_candidates table (status and the primary
\* contact of the payload), output.followup_drafts the user's drafts, keyed
\* by (organization_domain, to_email); output.pc and output.approved are the
\* position and the local list of one generate_drafts call; output.reset and
\* output.deleted are ghosts: whether the last generation regenerated a draft
\* that was approved, and whether it deleted one.
DraftOrgs == {"acme", "globex"}
DraftContacts == {"ann", "bob"}
DecisionStatuses == {"pending", "approved", "rejected"}

DraftInit ==
    /\ CampaignIdle
    /\ ScanIdle
    /\ NoDrafts
    /\ input = [rows |-> [d \in DraftOrgs |->
                            [status |-> "pending", primary_contact_email |-> "ann"]]]
    /\ output = [followup_drafts |-> <<>>, pc |-> "idle", approved |-> {},
                 reset |-> FALSE, deleted |-> FALSE]

\* lines 1463-1478: the user's decision on an organization of the queue
DecideOrganization(d, status) ==
    /\ input.rows[d].status # status
    /\ input' = [input EXCEPT !.rows[d].status = status]
    /\ UNCHANGED <<cvars, svars, output>>

\* lines 863-904: a scan writes the payload of the row again, with the
\* primary contact it found
RescanContact(d, contact) ==
    /\ input.rows[d].primary_contact_email # contact
    /\ input' = [input EXCEPT !.rows[d].primary_contact_email = contact]
    /\ UNCHANGED <<cvars, svars, output>>

\* lines 1954-1975: the user's decision on a draft; an unknown draft is 404
update_draft_decision(key, status) ==
    /\ key \in DOMAIN output.followup_drafts
    /\ output.followup_drafts[key] # status
    /\ output' = [output EXCEPT !.followup_drafts[key] = status]
    /\ UNCHANGED <<cvars, svars, input>>

\* lines 1830-1831 and 1836-1840: the approved rows, each with its domain and
\* primary contact
ApprovedPairs(rows) ==
    {<<d, rows[d].primary_contact_email>> :
        d \in {x \in DOMAIN rows : rows[x].status = "approved"}}

GenerateLoad ==
    /\ output.pc = "idle"
    /\ output' = [output EXCEPT !.pc = "loaded", !.approved = ApprovedPairs(input.rows)]
    /\ UNCHANGED <<cvars, svars, input>>

\* lines 1851-1891: the upsert of one draft per approved row; a draft that
\* exists keeps its texts and gets status pending
UpsertDrafts(table, generated) ==
    [k \in DOMAIN table \cup generated |->
        IF k \in generated THEN "pending" ELSE table[k]]

\* mutant: the drafts that were not generated stay
DeleteStale_KeepsAll(table, generated) == table

\* lines 1894-1904: every draft whose key was not generated is deleted
DeleteStale(table, generated) ==
    [k \in DOMAIN table \ (DOMAIN table \ generated) |-> table[k]]

\* lines 1835-1904: one transaction
GenerateWrite ==
    /\ output.pc = "loaded"
    /\ output' = [output EXCEPT
          !.pc = "idle",
          !.approved = {},
          !.reset = \E k \in DOMAIN output.followup_drafts \cap output.approved :
                       output.followup_drafts[k] = "approved",
          !.deleted = DOMAIN output.followup_drafts \ output.approved # {},
          !.followup_drafts = DeleteStale(UpsertDrafts(@, output.approved),
                                          output.approved)]
    /\ UNCHANGED <<cvars, svars, input>>

DraftNext ==
    \/ \E d \in DraftOrgs, status \in DecisionStatuses : DecideOrganization(d, status)
    \/ \E d \in DraftOrgs, contact \in DraftContacts : RescanContact(d, contact)
    \/ \E key \in DraftOrgs \X DraftContacts, status \in DecisionStatuses :
          update_draft_decision(key, status)
    \/ GenerateLoad
    \/ GenerateWrite

DraftSpec == DraftInit /\ [][DraftNext]_vars

\* ------------------------------------------------------------------- claims
\* a step of the tick that examines target k under the given remote outcomes
Examines(k, answer, crm_ok, send_ok) ==
    /\ TargetStep(k, answer, crm_ok, send_ok)
    /\ tick.rows[k].status = "active"

\* C1: every campaign target has sent_count <= max_sends in every reachable
\* state, whatever the sends, reply checks and CRM calls answer.
C1_SentWithinMax ==
    \A k \in DOMAIN campaign_targets :
        campaign_targets[k].sent_count <= campaign_targets[k].max_sends

\* a message was sent to a target and counted on its row
C1_Witness ==
    \E k \in DOMAIN campaign_targets :
        campaign_targets[k].sent_count > 0 /\ outbox[k] > 0

\* C3: when a tick examines an active target with sent_count > 0 and no
\* replied_at, and the reply check reports a reply after the last send, the
\* step sets replied_at, makes the status replied and sends nothing.
C3_ReplyMarksReplied ==
    [][\A k \in DOMAIN campaign_targets, answer \in ReplyAnswers(now),
          crm_ok, send_ok \in BOOLEAN :
          ( /\ Examines(k, answer, crm_ok, send_ok)
            /\ campaign_targets[k].sent_count > 0
            /\ campaign_targets[k].replied_at = NULL
            /\ gmail_has_reply_after(answer, campaign_targets[k].last_sent_at) )
          => ( /\ campaign_targets'[k].replied_at # NULL
               /\ campaign_targets'[k].status = "replied"
               /\ outbox'[k] = outbox[k] )]_vars

\* C4: every tick that detects a reply for a target, the CRM being reachable,
\* leaves exactly one CRM record for that target: the first such tick creates
\* it, a following one finds the stored id and creates none.
C4_OneDealPerRepliedTarget ==
    [][\A k \in DOMAIN campaign_targets, answer \in ReplyAnswers(now),
          send_ok \in BOOLEAN :
          ( /\ Examines(k, answer, TRUE, send_ok)
            /\ campaign_targets[k].sent_count > 0
            /\ gmail_has_reply_after(answer, campaign_targets[k].last_sent_at) )
          => deals'[k] = 1]_vars

\* C5: a target without reply whose sends succeed is advanced by every tick
\* that examines it: a due send is made and counted while sent_count is below
\* max_sends, and at sent_count = max_sends the target becomes completed.
C5_SendsUntilCompleted ==
    [][\A k \in DOMAIN campaign_targets, answer \in ReplyAnswers(now),
          crm_ok \in BOOLEAN :
          ( /\ Examines(k, answer, crm_ok, TRUE)
            /\ campaign_targets[k].replied_at = NULL
            /\ ~gmail_has_reply_after(answer, campaign_targets[k].last_sent_at) )
          => IF campaign_targets[k].sent_count >= campaign_targets[k].max_sends
             THEN campaign_targets'[k].status = "completed"
             ELSE IF campaign_targets[k].next_send_at <= tick.now
             THEN /\ campaign_targets'[k].sent_count = campaign_targets[k].sent_count + 1
                  /\ outbox'[k] = outbox[k] + 1
             ELSE campaign_targets'[k] = campaign_targets[k]]_vars

\* C9: for each user at most one campaign has status running, also when start
\* requests of the same user are handled concurrently.
C9_OneRunningPerUser ==
    \A u \in Users : Cardinality(RunningOf(u)) <= 1

\* C6: at any time at most one scan job of a user has status running or
\* paused, whatever the interleaving of scan requests, tasks, pause and resume.
C6_OneActiveJobPerUser ==
    \A u \in Users : Cardinality(ActiveJobs(u)) <= 1

\* a step in which the task of job j starts a yearly list call or a batch
StartsWork(j) ==
    /\ task[j].pc = "set_running"
    /\ task'[j].pc \in {"list", "fetch"}

\* C7: from a pause request until the resume request the job starts no yearly
\* window and no batch and its status reads paused; the resume request makes
\* the status read running again.
C7_PauseHaltsProgress ==
    [][\A j \in DOMAIN QUEUE_JOBS :
          /\ QUEUE_JOBS[j].pause_requested => ~StartsWork(j)
          /\ QUEUE_JOBS'[j].pause_requested => QUEUE_JOBS'[j].status = "paused"
          /\ (QUEUE_JOBS[j].pause_requested /\ ~QUEUE_JOBS'[j].pause_requested)
                => QUEUE_JOBS'[j].status = "running"]_vars

\* C8: once the status of a job is done or failed, no step of the task or of
\* a pause or resume call changes the job record.
C8_TerminalStatusIsFinal ==
    [][\A j \in DOMAIN QUEUE_JOBS :
          QUEUE_JOBS[j].status \in {"done", "failed"}
              => QUEUE_JOBS'[j] = QUEUE_JOBS[j]]_vars

\* a checkpoint or the final snapshot of some job is written
SnapshotWritten ==
    \E j \in DOMAIN task : CheckpointWrite(j) \/ FinalWrite(j)

\* C10: the upsert of a checkpoint or of the final snapshot leaves the status
\* of every domain already in the store as it was, whatever auto_status the
\* rows carry and whatever the user decided since the status map was loaded.
C10_RescanKeepsStatus ==
    [][SnapshotWritten =>
          \A u \in Users : \A d \in DOMAIN queue_candidates[u] :
              queue_candidates'[u][d].status = queue_candidates[u][d].status]_vars

\* a checkpoint has rewritten a row that the user approved after the status
\* map was loaded (the map still says pending), with auto_status auto_reject
C10_Witness ==
    \E j \in DOMAIN task : \E d \in DOMAIN task[j].rows \cap DOMAIN task[j].existing_status :
        LET row == queue_candidates[QUEUE_JOBS[j].user_email][d]
        IN /\ task[j].pc \in {"wait", "final_load"}
           /\ task[j].existing_status[d] = "pending"
           /\ task[j].rows[d].auto_status = "auto_reject"
           /\ row.status = "approved"
           /\ row.auto_status = "auto_reject"
           /\ row.last_write = "scan"

\* C11: whatever messages are merged, the entity map holds no Organization
\* whose domain is the owner's domain or has the base label of the owner's
\* domain.
C11_OwnDomainNeverAnOrg ==
    \A d \in DOMAIN output :
        /\ d # input.own
        /\ base_domain_label(d) # base_domain_label(input.own)

\* Organizations exist after the merge of a message that carries an address
\* of the owner's domain and of one that carries an address of another
\* domain with the owner's base label
C11_Witness ==
    /\ DOMAIN output # {}
    /\ \E msg \in input.merged : \E em \in msg.all_emails : em.domain = input.own
    /\ \E msg \in input.merged : \E em \in msg.all_emails :
          /\ em.domain # input.own
          /\ base_domain_label(em.domain) = base_domain_label(input.own)

\* the counts of an entity map or of a set of rows: per Organization the
\* messages, per Stakeholder the touches, per Thread the messages
Counts(orgs) ==
    [d \in DOMAIN orgs |->
        [message_count |-> orgs[d].message_count,
         touches |-> [em \in DOMAIN orgs[d].stakeholders |->
                        orgs[d].stakeholders[em].touches],
         messages |-> [tid \in DOMAIN orgs[d].threads |->
                         orgs[d].threads[tid].messages]]]

\* the entity map of one pass in which each message of the set is merged once
OncePerMessage(ids, own) ==
    MergeBatch(<<>>, [m \in 1..MaxMsgs |-> m], ids, own)

\* C12: however often a message id is listed and however many scans ran
\* before, the entity map of a scan and the rows it writes to the store carry
\* the counts of one pass over the distinct messages the scan has fetched.
C12_NothingCountedTwice ==
    [][\A j \in DOMAIN task :
          LET u == QUEUE_JOBS[j].user_email
              once == OncePerMessage(task[j].fetched, own_domain(u))
          IN /\ Counts(task[j].orgs) = Counts(once)
             /\ (CheckpointWrite(j) \/ FinalWrite(j)) =>
                   \A d \in DOMAIN task[j].rows :
                       Counts(d :> queue_candidates'[u][d].payload) = Counts(d :> once[d])]_vars

\* the scan of a second job has rewritten the row of a domain whose message
\* the first job had counted already
C12_Witness ==
    /\ Len(QUEUE_JOBS) = 2
    /\ QUEUE_JOBS[1].status = "done"
    /\ task[2].pc = "final_load"
    /\ task[2].fetched # {}
    /\ \E d \in DOMAIN task[2].rows \cap DOMAIN task[2].existing_status :
          queue_candidates[QUEUE_JOBS[2].user_email][d].payload.message_count
              = Cardinality({m \in task[2].fetched :
                    d \in MessageDomains(Message(m), own_domain(QUEUE_JOBS[2].user_email))})

\* C13: while a job is running or paused, no step lowers the
\* messages_processed or the organizations count that a status read shows.
C13_ProgressNeverDrops ==
    [][\A j \in DOMAIN QUEUE_JOBS :
          QUEUE_JOBS'[j].status \in {"running", "paused"} =>
              /\ QUEUE_JOBS'[j].result_summary.messages_processed
                    >= QUEUE_JOBS[j].result_summary.messages_processed
              /\ QUEUE_JOBS'[j].result_summary.organizations
                    >= QUEUE_JOBS[j].result_summary.organizations]_vars

\* C14: when a message-id list call of a scan fails, the job becomes failed,
\* its task has ended (no further batch starts) and the job's error text is
\* not empty.
C14_ListFailureIsExplained ==
    [][\A j \in DOMAIN task : \A answer \in ListAnswers :
          (~answer.ok /\ YearList(j, answer)) =>
              /\ QUEUE_JOBS'[j].status = "failed"
              /\ task'[j].pc = "ended"
              /\ QUEUE_JOBS'[j].error # ""]_vars

\* C15: a step that makes a scan job failed leaves every row of the store as
\* it was, so the rows written by the job's earlier checkpoints stay.
C15_FailureKeepsCheckpoints ==
    [][\A j \in DOMAIN QUEUE_JOBS :
          (QUEUE_JOBS[j].status # "failed" /\ QUEUE_JOBS'[j].status = "failed")
              => queue_candidates' = queue_candidates]_vars

\* the only job has failed after its first checkpoint wrote a row
C15_Witness ==
    /\ Len(QUEUE_JOBS) = 1
    /\ QUEUE_JOBS[1].status = "failed"
    /\ QUEUE_JOBS[1].result_summary.messages_processed >= 1
    /\ QUEUE_JOBS[1].result_summary.organizations >= 1
    /\ \E d \in DOMAIN queue_candidates[QUEUE_JOBS[1].user_email] :
          queue_candidates[QUEUE_JOBS[1].user_email][d].last_write = "scan"

\* C16: a send that fails leaves sent_count, last_sent_at, next_send_at and
\* status of its target as they were, and a tick that has loaded a target
\* whose latest send failed does not end before it has come to that target.
C16_FailedSendIsRetried ==
    [][/\ \A k \in DOMAIN campaign_targets, answer \in ReplyAnswers(now),
             crm_ok \in BOOLEAN :
             ( /\ TargetStepNoted(k, answer, crm_ok, FALSE)
               /\ TargetOutcome(k, tick.rows[k], answer, FALSE) = "send_failed" )
             => /\ campaign_targets'[k].sent_count = campaign_targets[k].sent_count
                /\ campaign_targets'[k].last_sent_at = campaign_targets[k].last_sent_at
                /\ campaign_targets'[k].next_send_at = campaign_targets[k].next_send_at
                /\ campaign_targets'[k].status = campaign_targets[k].status
       /\ (tick.pc = "targets" /\ tick'.pc = "sleep")
             => DOMAIN tick.rows \cap send_failed = {}]_vars

\* C17: a tick that is working on the targets of one campaign does not end
\* while another campaign that was running when the tick started is still
\* waiting to be processed.
C17_TickReachesEveryCampaign ==
    [][(tick.pc = "targets" /\ tick'.pc = "sleep") => tick.todo = {}]_vars

\* C18: when the mail connection of a campaign fails in a tick (missing,
\* connected to another mailbox, token refresh failing), the step marks the
\* campaign error and the tick goes on with the remaining running campaigns.
C18_ConnectionFailureMarksError ==
    [][\A c \in DOMAIN campaigns, conn \in ConnOutcomes \ {"ok"} :
          TickCampaign(c, conn) =>
              /\ campaigns'[c].status = "error"
              /\ tick' = Continue(tick.todo \ {c})]_vars

\* C19: for topics = ["Partnership proposal"], no snippets, 2 stakeholders
\* and 20 days since the last message the business score is 56.
C19_PartnershipProposalScores56 ==
    ( /\ output # <<>>
      /\ input = [subjects |-> <<PartnershipProposal>>, snippets |-> <<>>,
                  stakeholders_count |-> 2, days_since_last |-> 20] )
    => output[1] = 56

\* C20: every row of the store, written by a checkpoint or by the final
\* snapshot, carries at least one thread and at least one stakeholder.
C20_RowsHaveThreadAndStakeholder ==
    \A u \in Users : \A d \in DOMAIN queue_candidates[u] :
        /\ DOMAIN queue_candidates[u][d].payload.threads # {}
        /\ DOMAIN queue_candidates[u][d].payload.stakeholders # {}

\* the checkpoint after the last batch has written a row while the entity
\* map held an organization that gets none
C20_Witness ==
    \E j \in DOMAIN task :
        /\ task[j].pc = "final_load"
        /\ QUEUE_JOBS[j].result_summary.messages_processed = LongMailbox
        /\ DOMAIN task[j].orgs \ Surfaced(task[j].orgs) # {}
        /\ \E d \in DOMAIN task[j].rows :
              /\ d \in DOMAIN queue_candidates[QUEUE_JOBS[j].user_email]
              /\ queue_candidates[QUEUE_JOBS[j].user_email][d].payload = task[j].rows[d]

\* the checks the gate of the target stage requires and the dict does not
\* give as passed
MissingChecks ==
    LET gates == input.readiness_rules.gates
    IN IF input.target_stage \notin DOMAIN gates THEN {}
       ELSE {c \in Range(gates[input.target_stage]) :
                c \notin DOMAIN input.checks \/ ~input.checks[c]}

\* the stage right before the target in the stage order, the target itself
\* when it is the first stage or is not listed
PrecedingStage ==
    IF \E i \in 2..Len(StageOrder) : StageOrder[i] = input.target_stage
    THEN StageOrder[(CHOOSE i \in 2..Len(StageOrder) : StageOrder[i] = input.target_stage) - 1]
    ELSE input.target_stage

InputIds == {input.rows[i].id : i \in DOMAIN input.rows}

\* update time a is not earlier than update time b
NotEarlier(a, b) == a.day > b.day \/ (a.day = b.day /\ a.hour >= b.hour)

\* C22: the plan counts every distinct id once, as an update when the id has
\* an existing page and as a create otherwise, and the deduplication keeps for
\* each id a row of that id whose update_time no other row of the id exceeds.
C22_PlanCountsEachIdOnce ==
    output # <<>> =>
        /\ output[1].actions.creates + output[1].actions.updates = Cardinality(InputIds)
        /\ output[1].actions.updates = Cardinality(InputIds \cap input.existing)
        /\ output[1].actions.creates = Cardinality(InputIds \ input.existing)
        /\ DOMAIN output[1].deduped = InputIds
        /\ \A did \in InputIds :
              /\ output[1].deduped[did].id = did
              /\ \A i \in DOMAIN input.rows :
                    input.rows[i].id = did =>
                        NotEarlier(output[1].deduped[did].update_time,
                                   input.rows[i].update_time)

\* C23: when a tick examines an active target that has a reply after its
\* last send and no stored record id, and the CRM returns no id, the step
\* records the reply, stores no id and leaves the target among the rows a
\* later tick loads (status active, line 1183), so that creation is tried
\* again.
C23_AbsentDealIsRetried ==
    [][\A k \in DOMAIN campaign_targets, answer \in ReplyAnswers(now),
          send_ok \in BOOLEAN :
          ( /\ Examines(k, answer, FALSE, send_ok)
            /\ campaign_targets[k].sent_count > 0
            /\ campaign_targets[k].replied_at = NULL
            /\ campaign_targets[k].pipedrive_deal_id = NULL
            /\ gmail_has_reply_after(answer, campaign_targets[k].last_sent_at) )
          => ( /\ campaign_targets'[k].replied_at # NULL
               /\ campaign_targets'[k].pipedrive_deal_id = NULL
               /\ deals'[k] = deals[k]
               /\ campaign_targets'[k].status = "active" )]_vars

\* C24: a step that sends a message to a target finds next_send_at not later
\* than the tick's time, sets next_send_at to the tick's time plus 2 days, and
\* comes at least 2 days after the previous send to that target.
C24_SendsTwoDaysApart ==
    [][\A k \in DOMAIN campaign_targets :
          outbox'[k] > outbox[k] =>
              /\ campaign_targets[k].next_send_at <= tick.now
              /\ campaign_targets'[k].next_send_at = tick.now + 2
              /\ campaign_targets[k].last_sent_at # NULL
                    => tick.now - campaign_targets[k].last_sent_at >= 2]_vars

\* a message was sent and the target is not due before two days have passed
C24_Witness ==
    \E k \in DOMAIN campaign_targets :
        /\ outbox[k] = 1
        /\ campaign_targets[k].last_sent_at # NULL
        /\ campaign_targets[k].next_send_at = campaign_targets[k].last_sent_at + 2
        /\ campaign_targets[k].next_send_at > now

\* the sum of the sent_count values of a set of targets
RECURSIVE SentTotal(_)
SentTotal(ks) ==
    IF ks = {} THEN 0
    ELSE LET k == CHOOSE x \in ks : TRUE
         IN campaign_targets[k].sent_count + SentTotal(ks \ {k})

\* C25: between two ticks the sent counter of every campaign equals the sum
\* of the sent_count values of its targets.
C25_CampaignCountsItsSends ==
    tick.pc = "sleep" =>
        \A c \in DOMAIN campaigns : campaigns[c].sent_count = SentTotal(TargetsOf(c))

\* the targets of campaign c that are active after the step
ActiveAfter(c) ==
    {k \in DOMAIN campaign_targets' : k[1] = c /\ campaign_targets'[k].status = "active"}

\* C26: no step leaves a campaign done with an active target, and the step
\* that ends the processing of a campaign in a tick leaves it done when none
\* of its targets is active and running otherwise.
C26_DoneIffNoActiveTarget ==
    [][/\ \A c \in DOMAIN campaigns' :
             campaigns'[c].status = "done" => ActiveAfter(c) = {}
       /\ CampaignFinish =>
             campaigns'[tick.cur].status =
                 IF ActiveAfter(tick.cur) = {} THEN "done" ELSE "running"]_vars

\* a tick has processed a campaign to its end: the send it made is counted
\* on the campaign, which is running with an active target
C26_Witness ==
    /\ tick.pc = "sleep"
    /\ \E c \in DOMAIN campaigns :
          /\ campaigns[c].sent_count > 0
          /\ campaigns[c].status = "running"
          /\ \E k \in TargetsOf(c) : campaign_targets[k].status = "active"

\* C27: a step that makes a scan job done or failed finds it running, and a
\* job whose pause is requested and not yet resumed is not made done.
C27_EndsOnlyFromRunning ==
    [][\A j \in DOMAIN QUEUE_JOBS :
          /\ ( /\ QUEUE_JOBS[j].status \notin {"done", "failed"}
               /\ QUEUE_JOBS'[j].status \in {"done", "failed"} )
                => QUEUE_JOBS[j].status = "running"
          /\ ( /\ QUEUE_JOBS[j].status # "done"
               /\ QUEUE_JOBS'[j].status = "done" )
                => ~QUEUE_JOBS[j].pause_requested]_vars

\* the task of job j is at a suspension point and no pause is requested
ResumedAtWait(j) ==
    /\ j \in DOMAIN task
    /\ task[j].pc \in {"wait", "set_paused"}
    /\ ~QUEUE_JOBS[j].pause_requested

\* the task of job j has left the pause loop and the job reads running
BackToWork(j) ==
    /\ j \in DOMAIN task
    /\ task[j].pc \in {"list", "fetch"}
    /\ QUEUE_JOBS[j].status = "running"

PauseRequested(j) == j \in DOMAIN QUEUE_JOBS /\ QUEUE_JOBS[j].pause_requested

\* C28: a job that waits at a suspension point with its pause lifted leaves
\* the loop and reads running, and a job whose task has not ended reaches
\* done, unless a pause is requested again on the way.
C28_ResumedJobCompletes ==
    \A j \in 1..MaxJobs :
        /\ ResumedAtWait(j) ~> (BackToWork(j) \/ PauseRequested(j))
        /\ (j \in DOMAIN task /\ task[j].pc # "ended" /\ ~PauseRequested(j))
              ~> ((j \in DOMAIN QUEUE_JOBS /\ QUEUE_JOBS[j].status = "done")
                     \/ PauseRequested(j))

\* a job sits paused in the wait loop and its resume request has passed the
\* check of line 1816
C28_Witness ==
    \E j \in DOMAIN QUEUE_JOBS, c \in ControlThreads :
        /\ QUEUE_JOBS[j].status = "paused"
        /\ QUEUE_JOBS[j].pause_requested
        /\ task[j].pc = "wait"
        /\ task[j].ids # <<>>
        /\ ctl[c] = [pc |-> "apply", kind |-> "resume", job |-> j]

\* C29: within one scan an id is fetched at most once and merged at most
\* once, whichever windows and refill list return it, and under a cap at most
\* that many messages are processed
Occurrences(seq, m) == Cardinality({x \in DOMAIN seq : seq[x] = m})

C29_EachIdOnceWithinCap ==
    output # <<>> =>
        /\ \A m \in MsgIds : /\ Occurrences(output.fetched, m) <= 1
                             /\ Occurrences(output.merged, m) <= 1
        /\ input.max_msgs # NULL =>
              /\ Len(output.fetched) <= input.max_msgs
              /\ Len(output.merged) <= input.max_msgs

C29_Witness ==
    /\ output # <<>>
    /\ input.max_msgs # NULL
    /\ Len(output.fetched) = input.max_msgs
    /\ \E m \in MsgIds :
          /\ \A y \in ScanYears : m \in Range(input.windows[y])
          /\ m \in Range(input.unwindowed)
          /\ m \in Range(output.merged)
    /\ \E m \in Range(output.fetched) :
          \A y \in ScanYears : m \notin Range(input.windows[y])

\* C30: at every moment of a scan at most 16 metadata fetches are in flight,
\* whatever the size of the batch and in whatever order the fetches return
C30_AtMostSixteenInFlight == output.in_flight <= 16

C30_Witness ==
    /\ input.batch > 16
    /\ output.in_flight = 16
    /\ output.waiting > 0
    /\ output.returned > 0

\* C31: a metadata fetch that answers an error status or raises never fails
\* the scan; its message is skipped and every other message of the batch is
\* merged
Answered(dom) ==
    {m \in Range(input.batch) :
        /\ input.answers[m] = "message"
        /\ dom \in MessageDomains(Message(m), own_domain("u1"))}

C31_FailedFetchIsSkipped ==
    output # <<>> =>
        /\ ~output.failed
        /\ DOMAIN output.orgs = {dom \in Domains : Answered(dom) # {}}
        /\ \A dom \in DOMAIN output.orgs :
              /\ output.orgs[dom].message_count = Cardinality(Answered(dom))
              /\ output.orgs[dom].last_message_at = Max({Message(m).ts : m \in Answered(dom)})

C31_Witness ==
    /\ output # <<>>
    /\ \E a, b, c \in Range(input.batch) :
          /\ input.answers[a] = "error_status"
          /\ input.answers[b] = "raised"
          /\ input.answers[c] = "message"
          /\ \E dom \in DOMAIN output.orgs : c \in Answered(dom)

\* C32: the end of every processed batch is followed by an upsert of the
\* organization rows, and the step that makes the job done has written the
\* final snapshot to the store
C32_UpsertAfterEveryBatch ==
    [][\A j \in DOMAIN task :
          /\ ( /\ task[j].pc = "fetch"
               /\ task'[j].pc \notin {"fetch", "ended"} )
                => task'[j].pc = "cp_write"
          /\ ( /\ QUEUE_JOBS[j].status # "done"
               /\ QUEUE_JOBS'[j].status = "done" )
                => /\ task[j].pc = "final_write"
                   /\ queue_candidates'[QUEUE_JOBS[j].user_email] =
                         save_queue_rows(queue_candidates[QUEUE_JOBS[j].user_email],
                                         task[j].existing_status,
                                         build_rows_from_orgs(task[j].orgs, AllPending))]_vars

\* the half of C32 that the program keeps: the final snapshot precedes done
C32_FinalSnapshotBeforeDone ==
    [][\A j \in DOMAIN task :
          ( /\ QUEUE_JOBS[j].status # "done"
            /\ QUEUE_JOBS'[j].status = "done" )
           => /\ task[j].pc = "final_write"
              /\ queue_candidates'[QUEUE_JOBS[j].user_email] =
                    save_queue_rows(queue_candidates[QUEUE_JOBS[j].user_email],
                                    task[j].existing_status,
                                    build_rows_from_orgs(task[j].orgs, AllPending))]_vars

\* C33: merging the messages of a batch is commutative: either order of the
\* same messages gives the same Organizations, Stakeholders and Threads
C33_MergeIsCommutative ==
    output # <<>> => output.forward = output.backward

\* the part of C33 the program keeps: the counts and the latest dates
C33_CountsCommute ==
    output # <<>> =>
        /\ DOMAIN output.forward = DOMAIN output.backward
        /\ \A d \in DOMAIN output.forward :
              /\ output.forward[d].message_count = output.backward[d].message_count
              /\ output.forward[d].last_message_at = output.backward[d].last_message_at
              /\ output.forward[d].stakeholders = output.backward[d].stakeholders
              /\ output.forward[d].threads = output.backward[d].threads
              /\ Range(output.forward[d].subjects) = Range(output.backward[d].subjects)

\* the words the noise-subject patterns are written for, and a topic that
\* holds one of them as a whole word, whatever the case
NoiseWords == {SubSeq(p, 3, Len(p) - 2) : p \in NOISE_SUBJECT_PATTERNS}

IsWordChar(c) ==
    \/ c \in Range(LowerLetters) \cup Range(UpperLetters)
    \/ c \in {"0", "1", "2", "3", "4", "5", "6", "7", "8", "9", "_"}

HoldsWord(text, w) ==
    \E i \in 1..(Len(text) - Len(w) + 1) :
        /\ SubSeq(text, i, i + Len(w) - 1) = w
        /\ i = 1 \/ ~IsWordChar(text[i - 1])
        /\ i + Len(w) - 1 = Len(text) \/ ~IsWordChar(text[i + Len(w)])

NamesNoiseSubject(topic) == \E w \in NoiseWords : HoldsWord(lower(topic), w)

\* the local parts the automated-sender patterns are written for
AutomatedLocalParts ==
    {"no-reply", "no_reply", "no.reply", "noreply", "do-not-reply", "donotreply",
     "notification", "automated", "alert", "alerts"}

AutomatedSender(em) == em.local \in AutomatedLocalParts

\* the four conditions of an automatic rejection, in their order
RejectConditions(row) ==
    <<Cardinality({x \in DOMAIN row.topics : NamesNoiseSubject(row.topics[x])}) >= 2,
      \A em \in row.stakeholders : AutomatedSender(em),
      Cardinality(row.stakeholders) = 1
         /\ \A em \in row.stakeholders : em.local \in GENERIC_LOCALPARTS,
      row.followup_score < 45>>

ReasonCodes ==
    <<"newsletter_or_system_subject", "automated_senders_only",
      "generic_mailbox_only", "low_relevance">>

\* C34: a row is auto_reject exactly when two of its top topics match a
\* noise-subject pattern, or all its stakeholders are automated senders, or
\* its only stakeholder is a generic mailbox, or its followup_score is below
\* 45; it is pending otherwise
C34_AutoRejectIffCondition ==
    output # <<>> =>
        \A d \in DOMAIN output.rows :
            LET row == output.rows[d]
            IN /\ row.auto_status \in {"auto_reject", "pending"}
               /\ row.auto_status = "auto_reject"
                     <=> \E x \in 1..4 : RejectConditions(row)[x]

\* C35: an auto-rejected row records exactly one reason, that of the first
\* condition that matches, in the order noise subject, automated senders
\* only, generic mailbox only, low relevance
C35_OneReasonTheFirst ==
    output # <<>> =>
        \A d \in DOMAIN output.rows :
            LET row == output.rows[d]
            IN row.auto_status = "auto_reject" =>
                  /\ Len(row.auto_reasons) = 1
                  /\ \E x \in 1..4 :
                        /\ RejectConditions(row)[x]
                        /\ \A y \in 1..(x - 1) : ~RejectConditions(row)[y]
                        /\ row.auto_reasons[1] = ReasonCodes[x]

\* C36: no address whose local part is an automated sender's or a generic
\* mailbox's is a stakeholder of an organization
C36_NoAutomatedStakeholder ==
    output # <<>> =>
        \A d \in DOMAIN output.orgs : \A em \in DOMAIN output.orgs[d].stakeholders :
            /\ ~AutomatedSender(em)
            /\ em.local \notin GENERIC_LOCALPARTS

\* C37: no row carries the reason automated_senders_only or
\* generic_mailbox_only: an organization without stakeholders gets no row and
\* no stakeholder of a row is one that these reasons test for
C37_OnlyNoiseAndLowRelevance ==
    output # <<>> =>
        \A d \in DOMAIN output.rows :
            /\ Range(output.rows[d].auto_reasons)
                  \subseteq {"newsletter_or_system_subject", "low_relevance"}
            /\ output.rows[d].stakeholders # {}
            /\ \A em \in output.rows[d].stakeholders :
                  ~is_noise_sender(em) /\ ~is_generic_localpart(em)

C37_Witness ==
    /\ output # <<>>
    /\ input.first.from_email.local = "info"
    /\ input.second.from_email.local = "ann"
    /\ \E d \in DOMAIN output.rows :
          /\ output.rows[d].auto_status = "auto_reject"
          /\ output.rows[d].auto_reasons = <<"newsletter_or_system_subject", "low_relevance">>

\* C38: an exception raised inside a tick does not stop the scheduler: the
\* loop swallows it and sleeps, the sleep is followed by the next tick, no
\* two ticks run at the same time, and a worker task ends only when it was
\* cancelled
Alive == {k \in DOMAIN output.tasks : output.tasks[k].pc # "done"}

C38_ExceptionNeverStopsTheLoop ==
    /\ [](Cardinality(Alive) <= 1)
    /\ [](\A k \in Alive :
            /\ output.tasks[k].pc = "sleep" /\ ~output.tasks[k].cancel
                  => ENABLED SleepEnds(k)
            /\ output.tasks[k].pc = "wake" /\ ~output.tasks[k].cancel
               /\ output.tasks[k].ticks < MaxTicks
                  => ENABLED TickBegin(k))
    /\ [][\A k \in DOMAIN output.tasks :
            /\ ( /\ output.tasks[k].pc = "tick"
                 /\ output'.tasks[k].pc # "tick"
                 /\ ~output.tasks[k].cancel )
                  => output'.tasks[k].pc = "sleep"
            /\ ( /\ output.tasks[k].pc = "sleep"
                 /\ output'.tasks[k].pc # "sleep"
                 /\ ~output.tasks[k].cancel )
                  => output'.tasks[k].pc = "wake"
            /\ ( /\ output.tasks[k].pc # "done"
                 /\ output'.tasks[k].pc = "done" )
                  => output.tasks[k].cancel]_vars

C38_Witness ==
    /\ input.startups = 2
    /\ Len(output.tasks) = 1
    /\ output.tasks[1].pc = "tick"
    /\ output.tasks[1].swallowed >= 1
    /\ output.tasks[1].ticks >= 2

=============================================================================
